---- MODULE Spec2Model ----
(***************************************************************************)
(* Reminder bot (Cloudflare Worker): the store of todos, the confirmation  *)
(* save callback and the scheduled sweep processScheduledReminders with    *)
(* the recurrence arithmetic of time.js.                                   *)
(*                                                                         *)
(* Time is in whole seconds since the Unix epoch.  The Date objects of     *)
(* the source hold lastTs * 1000 ms and every setter used keeps the        *)
(* milliseconds within the second at 0, so seconds lose nothing.  The      *)
(* local-time getters and setters of Date (getDate, setDate, getDay,       *)
(* setMonth, setFullYear) run in the Worker's time zone, which is UTC.     *)
(***************************************************************************)
EXTENDS Integers, Sequences, FiniteSets, TLC

\* ------------------------------------------------------------------ bounds
MaxRows == 4
MaxSaves == 2
MaxFaults == 1
MaxDays == 2
MaxFires == 2

\* ------------------------------------------------------- program constants
TAIPEI_OFFSET == 480
NO_TIME_LIMIT == 0 - 1
SecPerDay == 86400

\* ------------------------------------------------------------ civil calendar
\* ECMAScript Day(t) and TimeWithinDay(t), t in seconds
DayOf(ts) == ts \div SecPerDay
TimeWithinDay(ts) == ts % SecPerDay

\* days since 1970-01-01 of the proleptic Gregorian date y-m-d, m in 1..12
DaysFromCivil(y, m, d) ==
  LET yy  == IF m <= 2 THEN y - 1 ELSE y
      era == yy \div 400
      yoe == yy - era * 400
      mp  == IF m > 2 THEN m - 3 ELSE m + 9
      doy == (153 * mp + 2) \div 5 + d - 1
      doe == yoe * 365 + yoe \div 4 - yoe \div 100 + doy
  IN  era * 146097 + doe - 719468

\* <<year, month 1..12, day of month>> of a day number
CivilFromDays(z) ==
  LET zz  == z + 719468
      era == zz \div 146097
      doe == zz - era * 146097
      yoe == (doe - doe \div 1460 + doe \div 36524 - doe \div 146096) \div 365
      doy == doe - (365 * yoe + yoe \div 4 - yoe \div 100)
      mp  == (5 * doy + 2) \div 153
      d   == doy - (153 * mp + 2) \div 5 + 1
      m   == IF mp < 10 THEN mp + 3 ELSE mp - 9
      y   == yoe + era * 400 + (IF m <= 2 THEN 1 ELSE 0)
  IN  <<y, m, d>>

\* Date.prototype getters, local time = UTC
getFullYear(ts) == CivilFromDays(DayOf(ts))[1]
\* 0-based month
getMonth(ts) == CivilFromDays(DayOf(ts))[2] - 1
getDate(ts) == CivilFromDays(DayOf(ts))[3]
\* 0 = Sunday .. 6 = Saturday; 1970-01-01 was a Thursday
getDay(ts) == (DayOf(ts) + 4) % 7

\* ECMAScript MakeDay(year, month, date): month is 0-based and may overflow,
\* date may overflow into the following months
MakeDay(year, month, date) ==
  LET ym == year + month \div 12
      mn == month % 12
  IN  DaysFromCivil(ym, mn + 1, 1) + date - 1

\* Date.prototype setters, each returns the new time value
setDate(ts, date) ==
  MakeDay(getFullYear(ts), getMonth(ts), date) * SecPerDay + TimeWithinDay(ts)
setMonth(ts, month) ==
  MakeDay(getFullYear(ts), month, getDate(ts)) * SecPerDay + TimeWithinDay(ts)
setFullYear(ts, year) ==
  MakeDay(year, getMonth(ts), getDate(ts)) * SecPerDay + TimeWithinDay(ts)

IsLeapYear(y) == y % 4 = 0 /\ (y % 100 # 0 \/ y % 400 = 0)

\* ------------------------------------------------------- recurrence rules
\* A cron_rule string is held by what the code reads from it: the prefix
\* that the startsWith / === tests see (kind) and, for 'weekly:', the
\* numbers of split(':')[1].split(',').map(Number) (days); month and day
\* are the numbers of 'monthly:D' and 'yearly:M-D'.  kind "other" is any
\* string none of the tests of calculateNext recognises, kind "null" is
\* the SQL NULL.
Rule(kind, days, month, day) ==
  [kind |-> kind, days |-> days, month |-> month, day |-> day]
NULL == Rule("null", {}, 0, 0)
Daily == Rule("daily", {}, 0, 0)
Weekly(days) == Rule("weekly", days, 0, 0)
Monthly(day) == Rule("monthly", {}, 0, day)
Yearly(month, day) == Rule("yearly", {}, month, day)
Other == Rule("other", {}, 0, 0)

\* the while loop of calculateNext: the first offset 1..7 whose weekday
\* is in days, 0 when none is found (d is then left unchanged)
RECURSIVE nextDayOffset(_, _, _)
nextDayOffset(currentDayOfWeekISO, days, offset) ==
  IF offset > 7 THEN 0
  ELSE LET p == (currentDayOfWeekISO + offset) % 7
           potentialDay == IF p = 0 THEN 7 ELSE p
       IN  IF potentialDay \in days THEN offset
           ELSE nextDayOffset(currentDayOfWeekISO, days, offset + 1)

calculateNext(lastTs, rule) ==
  IF rule.kind = "daily" THEN setDate(lastTs, getDate(lastTs) + 1)
  ELSE IF rule.kind = "weekly" THEN
    LET currentDayOfWeekISO == IF getDay(lastTs) = 0 THEN 7 ELSE getDay(lastTs)
        off == nextDayOffset(currentDayOfWeekISO, rule.days, 1)
    IN  IF off = 0 THEN lastTs ELSE setDate(lastTs, getDate(lastTs) + off)
  ELSE IF rule.kind = "monthly" THEN setMonth(lastTs, getMonth(lastTs) + 1)
  ELSE IF rule.kind = "yearly" THEN
    LET d == setFullYear(lastTs, getFullYear(lastTs) + 1)
    IN  IF getMonth(d) = 1 /\ getDate(d) = 29 /\ ~IsLeapYear(getFullYear(d))
        THEN setDate(d, 28) ELSE d
  ELSE lastTs

\* ---------------------------------------- calculateNextFromRule, other builds
\* part_002: the weekly loop steps one day at a time, at most 7 times, and
\* stops on a day whose weekday, Sunday taken as 7, is in days
RECURSIVE weeklyLoop(_, _, _)
weeklyLoop(nextDate, days, i) ==
  IF i > 7 THEN nextDate
  ELSE LET n == setDate(nextDate, getDate(nextDate) + 1)
           day == IF getDay(n) = 0 THEN 7 ELSE getDay(n)
       IN  IF day \in days THEN n ELSE weeklyLoop(n, days, i + 1)

calculateNextFromRule(lastTs, rule) ==
  IF rule.kind = "daily" THEN setDate(lastTs, getDate(lastTs) + 1)
  ELSE IF rule.kind = "weekly" THEN weeklyLoop(lastTs, rule.days, 1)
  ELSE IF rule.kind = "yearly" THEN setFullYear(lastTs, getFullYear(lastTs) + 1)
  ELSE IF rule.kind = "monthly" THEN setMonth(lastTs, getMonth(lastTs) + 1)
  ELSE lastTs

\* main.js: for (i = 0; i < 8; i++) steps one day at a time and stops on a
\* day whose getDay(), Sunday being 0, is in days
RECURSIVE weeklyLoop_main(_, _, _)
weeklyLoop_main(date, days, i) ==
  IF i >= 8 THEN date
  ELSE LET n == setDate(date, getDate(date) + 1)
       IN  IF getDay(n) \in days THEN n ELSE weeklyLoop_main(n, days, i + 1)

\* main.js: the Date starts at (lastTs + 60) * 1000
calculateNextFromRule_main(lastTs, rule) ==
  LET date == lastTs + 60
  IN  IF rule.kind = "daily" THEN setDate(date, getDate(date) + 1)
      ELSE IF rule.kind = "weekly" THEN weeklyLoop_main(date, rule.days, 0)
      ELSE IF rule.kind = "monthly" THEN
        setDate(setMonth(date, getMonth(date) + 1), rule.day)
      ELSE IF rule.kind = "yearly" THEN
        setDate(setMonth(setFullYear(date, getFullYear(date) + 1),
                         rule.month - 1), rule.day)
      ELSE date

\* -------------------------------------------------------- processTaskWithAI
\* json.time is held by what the code reads from it.  form is the branch
\* the string takes:
\*   "none"     null or ''
\*   "iso"      'YYYY-MM-DDTHH:mm' without an offset, the date-time y-mo-d h:mi
\*   "isoTz"    'YYYY-MM-DDTHH:mm:ss+08:00', the date-time y-mo-d h:mi at the
\*              offset +08:00
\*   "T"        contains 'T' and is no date-time ('TBD'): new Date() is Invalid
\*   "md"       'MM-DD', month mo and day d
\*   "dash"     contains '-', no 'T', and no numbers ('N-A'): parseInt is NaN
\*   "today"    'today' / '今天', with HH:MM when at
\*   "tomorrow" 'tomorrow' / '明天', with HH:MM when at
\*   "inDays"   'in d days' / 'd天後', with HH:MM when at
\*   "clock"    'HH:MM'
\*   "phrase"   none of the above, and chrono resolves it to y-mo-d h:mi
\*   "unknown"  none of the above, chrono finds nothing, new Date() is Invalid
TimeExpr(form, y, mo, d, h, mi, at) ==
  [form |-> form, y |-> y, mo |-> mo, d |-> d, h |-> h, mi |-> mi, at |-> at]
NoTime == TimeExpr("none", 0, 0, 0, 0, 0, FALSE)
Iso(y, mo, d, h, mi) == TimeExpr("iso", y, mo, d, h, mi, TRUE)
IsoOffset(y, mo, d, h, mi) == TimeExpr("isoTz", y, mo, d, h, mi, TRUE)
NotIso == TimeExpr("T", 0, 0, 0, 0, 0, FALSE)
MonthDay(mo, d) == TimeExpr("md", 0, mo, d, 0, 0, FALSE)
NotMonthDay == TimeExpr("dash", 0, 0, 0, 0, 0, FALSE)
Today == TimeExpr("today", 0, 0, 0, 0, 0, FALSE)
TodayAt(h, mi) == TimeExpr("today", 0, 0, 0, h, mi, TRUE)
Tomorrow == TimeExpr("tomorrow", 0, 0, 0, 0, 0, FALSE)
TomorrowAt(h, mi) == TimeExpr("tomorrow", 0, 0, 0, h, mi, TRUE)
InDays(d) == TimeExpr("inDays", 0, 0, d, 0, 0, FALSE)
Clock(h, mi) == TimeExpr("clock", 0, 0, 0, h, mi, TRUE)
Phrase(y, mo, d, h, mi) == TimeExpr("phrase", y, mo, d, h, mi, TRUE)
Unknown == TimeExpr("unknown", 0, 0, 0, 0, 0, FALSE)

\* the string 'none' or 'null' as json.rule
NoneStr == Rule("none", {}, 0, 0)

\* a Date: its time value in seconds, or NaN (Invalid Date)
DateOf(t) == [nan |-> FALSE, t |-> t]
InvalidDate == [nan |-> TRUE, t |-> 0]

\* new Date(year, month, date, hours, minutes), local time = UTC
NewDate(year, month, date, h, mi) ==
  MakeDay(year, month, date) * SecPerDay + h * 3600 + mi * 60
\* setHours(h, mi, 0, 0)
setHours(ts, h, mi) == DayOf(ts) * SecPerDay + h * 3600 + mi * 60

\* new Date(Date.now() + TAIPEI_OFFSET * 60000): the civil wall clock read
\* as if it were UTC
refDateOf(nowTs) == nowTs + TAIPEI_OFFSET * 60

\* lines 58-193 for the forms that yield a Date (every form but "unknown")
parseTimeExpr(time, refDate) ==
  LET f == time.form
      civil == NewDate(time.y, time.mo - 1, time.d, time.h, time.mi)
      hm(p) == IF time.at THEN setHours(p, time.h, time.mi)
               ELSE setHours(p, 0, 0)
  IN  IF f = "iso" THEN DateOf(civil)
      \* new Date() of a string with an offset is the instant it denotes
      ELSE IF f = "isoTz" THEN DateOf(civil - TAIPEI_OFFSET * 60)
      ELSE IF f = "T" THEN InvalidDate
      ELSE IF f = "md" THEN
        LET date == NewDate(getFullYear(refDate), time.mo - 1, time.d, 0, 0)
        IN  IF date <= refDate
            THEN DateOf(NewDate(getFullYear(refDate) + 1, time.mo - 1,
                                time.d, 0, 0))
            ELSE DateOf(date)
      ELSE IF f = "dash" THEN InvalidDate
      ELSE IF f = "today" THEN DateOf(hm(refDate))
      ELSE IF f = "tomorrow" THEN
        DateOf(hm(setDate(refDate, getDate(refDate) + 1)))
      ELSE IF f = "inDays" THEN
        DateOf(hm(setDate(refDate, getDate(refDate) + time.d)))
      ELSE IF f = "clock" THEN
        LET p == setHours(refDate, time.h, time.mi)
        IN  DateOf(IF p < refDate THEN setDate(p, getDate(p) + 1) ELSE p)
      ELSE DateOf(civil)

\* the startsWith tests of line 196
isRecurring(rule) == rule.kind \in {"daily", "weekly", "monthly", "yearly"}

\* lines 195-209: a recurring task whose date is not after refDate is moved
\* on by one period (NaN <= x is false)
ensureFuture(date, rule, refDate) ==
  IF ~isRecurring(rule) \/ date.nan \/ date.t > refDate THEN date
  ELSE IF rule.kind = "yearly"
    THEN DateOf(setFullYear(date.t, getFullYear(date.t) + 1))
  ELSE IF rule.kind = "monthly"
    THEN DateOf(setMonth(date.t, getMonth(date.t) + 1))
  ELSE IF rule.kind = "weekly" THEN DateOf(setDate(date.t, getDate(date.t) + 7))
  ELSE DateOf(setDate(date.t, getDate(date.t) + 1))

\* lines 213-266: no time but a rule: the date is stepped from refDate
firstFromRule(rule, refDate) ==
  IF rule.kind = "daily" THEN setDate(refDate, getDate(refDate) + 1)
  ELSE IF rule.kind = "weekly" THEN
    LET dow == IF getDay(refDate) = 0 THEN 7 ELSE getDay(refDate)
        off == nextDayOffset(dow, rule.days, 1)
    IN  IF off = 0 THEN refDate ELSE setDate(refDate, getDate(refDate) + off)
  ELSE IF rule.kind = "monthly" THEN
    IF getDate(refDate) < rule.day THEN setDate(refDate, rule.day)
    ELSE setDate(setMonth(refDate, getMonth(refDate) + 1), rule.day)
  ELSE IF rule.kind = "yearly" THEN
    LET date == setDate(setMonth(refDate, rule.month - 1), rule.day)
    IN  IF date <= refDate THEN setFullYear(date, getFullYear(date) + 1)
        ELSE date
  ELSE refDate

\* variant: the Date is taken as a UTC instant, no offset is removed
toRemindTs_asUtc(date) == date

\* Math.floor((date.getTime() - TAIPEI_OFFSET * 60000) / 1000)
toRemindTs(date) == date - TAIPEI_OFFSET * 60

\* chrono.parse(json.time, refDate, {forwardDate: true}) of lines 287-297:
\* a date-time and a resolved phrase give their Date, the relative forms the
\* Date the branches above give them; nothing is found in the other strings
chronoFinds(time) ==
  time.form \in {"iso", "phrase", "today", "tomorrow", "inDays", "clock"}

\* what sendConfirmation is called with, or the error reply of the catch
Offer(remindAt, nan, cronRule, allDay) ==
  [kind |-> "confirm", remindAt |-> remindAt, nan |-> nan,
   cronRule |-> cronRule, allDay |-> allDay]
ErrorReply == [kind |-> "error", remindAt |-> 0, nan |-> FALSE,
               cronRule |-> NULL, allDay |-> 0]

\* sendConfirmation(ctx, 'add', {task, remindAt: remindTs, ...}) with the
\* remindTs computed from a Date
OfferDate(date, cronRule, allDay) ==
  Offer(date.t, date.nan, cronRule, allDay)

\* Math.floor((date.getTime() - TAIPEI_OFFSET * 60000) / 1000) of a Date
\* that may be Invalid
toRemindDate(date) ==
  IF date.nan THEN InvalidDate ELSE DateOf(toRemindTs(date.t))

\* lines 195-298: remindTs from found, the Date of lines 58-193
remindTsOf(json, refDate, found) ==
  IF json.rule.kind = "yearly" /\ chronoFinds(json.time)
  THEN \* the yearly block of lines 284-298 overrides what was computed
       DateOf(toRemindTs(IF found.t <= refDate
                         THEN setFullYear(found.t, getFullYear(found.t) + 1)
                         ELSE found.t))
  ELSE IF json.time.form # "none"
  THEN toRemindDate(ensureFuture(found, json.rule, refDate))
  ELSE IF json.rule.kind # "null"
  THEN DateOf(toRemindTs(firstFromRule(json.rule, refDate)))
  ELSE DateOf(NO_TIME_LIMIT)

processTaskWithAI(json, nowTs) ==
  IF json.time.form = "unknown" THEN ErrorReply
  ELSE OfferDate(remindTsOf(json, refDateOf(nowTs),
                            parseTimeExpr(json.time, refDateOf(nowTs))),
                 IF json.rule.kind = "none" THEN NULL ELSE json.rule,
                 IF json.isAllDay THEN 1 ELSE 0)

\* parseTimeLocally: the Date chrono found in the text, offset removed
parseTimeLocally(time) ==
  toRemindTs(NewDate(time.y, time.mo - 1, time.d, time.h, time.mi))

\* handleMessage for a text that is no command: the quick parse when it
\* finds a time and the text has no keyword, else processTaskWithAI, whose
\* catch also answers a failed callAI with the error reply
handleMessage(text, nowTs) ==
  IF text.via = "local" THEN Offer(parseTimeLocally(text.time), FALSE, NULL, 0)
  ELSE IF text.via = "failed" THEN ErrorReply
  ELSE processTaskWithAI(text, nowTs)

\* ------------------------------------------------------------ model inputs
\* the first sweep instant: 2024-02-26T15:59:00Z, civil (UTC+8) Monday 23:59
Now0 == 1708963140
\* sweep instants: Now0 + whole days + one of these offsets; offset 60 is
\* civil Tuesday 00:00, the civil day after offset 0
TickOffsets == {0, 60}
Instants == {Now0 + d * SecPerDay + o : d \in 0..MaxDays, o \in TickOffsets}
\* the confirmation messages users can accept: the accepting user, the task
\* of the message text and the remindAt, cronRule and allDay of the
\* callback data
Conf(u, task, remindAt, cronRule, allDay) ==
  [user_id |-> u, task |-> task, remindAt |-> remindAt,
   cronRule |-> cronRule, allDay |-> allDay]
Confirmations ==
  { Conf("u1", "a", NO_TIME_LIMIT, NULL, 0),
    Conf("u1", "b", Now0 - 3600, NULL, 0),
    Conf("u2", "a", Now0 + 30, NULL, 1),
    Conf("u1", "a", Now0 - 3600, Daily, 0),
    Conf("u1", "b", Now0 - 3600, Weekly({1, 3}), 0),
    Conf("u2", "b", Now0 - 3600, Monthly(26), 1),
    Conf("u2", "b", Now0 + 30, Yearly(2, 26), 0),
    Conf("u2", "a", Now0 - 3600, Other, 0) }

\* the replies of the model to one message: json.time, json.rule and
\* json.isAllDay; the prompt asks for isAllDay when no hour is mentioned.
\* At Now0 the civil wall clock is Monday 2024-02-26 23:59.
Json(time, rule, isAllDay) ==
  [via |-> "ai", time |-> time, rule |-> rule, isAllDay |-> isAllDay]
ReplyTimes ==
  { NoTime, Unknown, NotIso, NotMonthDay,
    Iso(2025, 12, 25, 9, 0), Iso(2024, 2, 26, 9, 0),
    Iso(2024, 3, 4, 20, 58), Iso(2024, 3, 4, 0, 30),
    Iso(2025, 1, 31, 0, 0), Iso(2024, 2, 29, 9, 0),
    MonthDay(3, 15), TodayAt(20, 0), Tomorrow, InDays(2), Clock(9, 0),
    Phrase(2024, 3, 1, 18, 0),
    IsoOffset(2025, 12, 25, 9, 0), Iso(2024, 1, 1, 9, 0),
    MonthDay(2, 27), MonthDay(2, 29), Clock(23, 59) }
\* 'weekly:' has the day list [0]
ReplyRules ==
  { NULL, NoneStr, Daily, Other,
    Weekly({1, 3, 5}), Weekly({7}), Weekly({8}), Weekly({0}),
    Monthly(15), Monthly(31), Monthly(32),
    Yearly(2, 29), Yearly(12, 25) }
\* a yearly rule comes with a date-time without an offset, a phrase or a
\* string chrono finds nothing in
Replies ==
  { Json(t, r, ~t.at) : t \in ReplyTimes, r \in ReplyRules } \
  { Json(t, r, ~t.at) : t \in {u \in ReplyTimes :
                                  u.form \in {"none", "md", "isoTz"}},
                        r \in {Yearly(2, 29), Yearly(12, 25)} }

\* a text without any of the keywords in which chrono finds a date and
\* time (the local quick parse), and a text for which callAI throws
LocalText(time) ==
  [via |-> "local", time |-> time, rule |-> NULL, isAllDay |-> FALSE]
FailedCall == [via |-> "failed", time |-> NoTime, rule |-> NULL,
               isAllDay |-> FALSE]
Texts ==
  Replies \cup {FailedCall, LocalText(Phrase(2024, 2, 27, 8, 0)),
                LocalText(Phrase(2024, 2, 26, 18, 0))}

\* ------------------------------------------------------------------- state
VARIABLES
  todos,    \* table todos: id -> row
  nextId,   \* AUTOINCREMENT counter of the table
  now,      \* Math.floor(Date.now() / 1000)
  sweep,    \* the running invocation of processScheduledReminders
  sent,     \* messages delivered by bot.api.sendMessage, in order
  lastEv,   \* outcome of the latest sweep step
  faults,   \* failed calls and stopped invocations so far
  saves,    \* accepted confirmations so far
  chat,     \* one conversation from the message to the firings of what it saved
  kb,       \* the inline keyboard of the manage mode message
  list,     \* the latest list message of renderList
  overlap,  \* a second invocation of processScheduledReminders, running
            \* while the first one does
  parsing,  \* userParsingState of main.js and the confirmation messages
            \* of its message handler
  lastReminded  \* column last_reminded of the table of main.js: id -> the
                \* instant written, no entry for NULL

vars ==
  <<todos, nextId, now, sweep, sent, lastEv, faults, saves, chat, kb, list,
    overlap, parsing, lastReminded>>

Row(user_id, task, remind_at, cron_rule, all_day, status) ==
  [user_id |-> user_id, task |-> task, remind_at |-> remind_at,
   cron_rule |-> cron_rule, all_day |-> all_day, status |-> status]

Idle == [pc |-> "idle", queue |-> <<>>, nowTs |-> 0]

\* one conversation: nothing received yet
Sched(at, last, n) == [at |-> at, last |-> last, n |-> n]
\* the message with the delete buttons: by is ctx.from of the command or
\* callback that drew it last, rows are the ids of its buttons, sel the ids
\* in the callback data of its buttons; Closed when its text replaced the
\* keyboard
Keyboard(by, rows, sel) ==
  [open |-> TRUE, by |-> by, rows |-> rows, sel |-> sel]
Closed(by) == [open |-> FALSE, by |-> by, rows |-> {}, sel |-> {}]
NoKeyboard == Closed("none")
\* the list message: by is ctx.from, start and end the range the filter
\* used, ids the todos of its numbered lines
ListMessage(by, start, end, ids) ==
  [by |-> by, start |-> start, end |-> end, ids |-> ids]
NoList == ListMessage("none", 0, 0, {})
\* a confirmation message of the message handler of main.js: the chat it is
\* in and the task and time its text shows
Confirmation(by, task, utcTime) ==
  [by |-> by, task |-> task, utcTime |-> utcTime]
NoConfirmation == Confirmation("none", "", 0)
\* userParsingState.get(userId) is undefined
NoState == [task |-> "", noTimeLimit |-> FALSE, daily |-> FALSE, utcTime |-> 0]
\* the Map, the confirmation messages sent so far, and the message whose
\* button was pressed last
NoParsing ==
  [state |-> [u \in {"u1", "u2"} |-> NoState], shown |-> {},
   pressed |-> NoConfirmation]

NoText == [via |-> "none", time |-> NoTime, rule |-> NULL, isAllDay |-> FALSE]
ChatIdle ==
  [pc |-> "idle", json |-> NoText, offer |-> ErrorReply,
   id |-> 0, last |-> 0, n |-> 0,
   main |-> Sched(0, 0, 0), part002 |-> Sched(0, 0, 0)]

\* rows the running sweep still has to insert a history row for
Reserved ==
  IF sweep.pc \in {"notify", "insert"} THEN Len(sweep.queue)
  ELSE IF sweep.pc = "update" THEN Len(sweep.queue) - 1
  ELSE 0
Free == MaxRows - (nextId - 1) - Reserved

Init ==
  /\ todos = << >>
  /\ nextId = 1
  /\ now = Now0
  /\ sweep = Idle
  /\ sent = << >>
  /\ lastEv = "ok"
  /\ faults = 0
  /\ saves = 0
  /\ chat = ChatIdle
  /\ kb = NoKeyboard
  /\ list = NoList
  /\ overlap = Idle
  /\ parsing = NoParsing
  /\ lastReminded = << >>

\* ------------------------------------------------------------------- db.js
\* INSERT: the table assigns the next AUTOINCREMENT id
Insert(table, id, row) == [i \in DOMAIN table \cup {id} |->
                             IF i = id THEN row ELSE table[i]]

\* addTodo: cronRule 'n' is stored as NULL, status 0
\* variant: the INSERT leaves all_day to its DEFAULT 0
addTodo_defaultAllDay(table, id, userId, task, remindAt, cronRule, allDay) ==
  Insert(table, id,
         Row(userId, task, remindAt,
             IF cronRule.kind = "n" THEN NULL ELSE cronRule, 0, 0))

addTodo(table, id, userId, task, remindAt, cronRule, allDay) ==
  Insert(table, id,
         Row(userId, task, remindAt,
             IF cronRule.kind = "n" THEN NULL ELSE cronRule, allDay, 0))

\* INSERT INTO todos (user_id, task, remind_at, status) VALUES (?, ?, ?, 1):
\* cron_rule is NULL and all_day takes its DEFAULT 0
addHistory(table, id, userId, task, remindAt) ==
  Insert(table, id, Row(userId, task, remindAt, NULL, 0, 1))

\* SELECT * FROM todos WHERE user_id = ? AND status = ?
getTodos(table, userId, status) ==
  {i \in DOMAIN table : table[i].user_id = userId /\ table[i].status = status}

\* DELETE FROM todos WHERE id IN (...) AND user_id = ?
deleteTodosByIds(table, ids, userId) ==
  [i \in {j \in DOMAIN table : ~(j \in ids /\ table[j].user_id = userId)}
     |-> table[i]]

\* UPDATE todos SET status = ? WHERE id = ?
updateTodoStatus(table, todoId, status) ==
  [i \in DOMAIN table |->
     IF i = todoId THEN [table[i] EXCEPT !.status = status] ELSE table[i]]

\* variant: the reschedule also closes the row
updateCronTodoNextTime_closing(table, todoId, nextTs) ==
  [i \in DOMAIN table |->
     IF i = todoId THEN [table[i] EXCEPT !.remind_at = nextTs, !.status = 1]
     ELSE table[i]]

\* variant: the reschedule addresses the rows by owner and task
updateCronTodoNextTime_byTask(table, todoId, nextTs) ==
  [i \in DOMAIN table |->
     IF /\ todoId \in DOMAIN table
        /\ table[i].user_id = table[todoId].user_id
        /\ table[i].task = table[todoId].task
     THEN [table[i] EXCEPT !.remind_at = nextTs] ELSE table[i]]

\* variant: the statement steps on from the triggerAt the row has when
\* it runs
updateCronTodoNextTime_fromStored(table, todoId, nextTs) ==
  [i \in DOMAIN table |->
     IF i = todoId
     THEN [table[i] EXCEPT !.remind_at =
             calculateNext(table[i].remind_at, table[i].cron_rule)]
     ELSE table[i]]

\* UPDATE todos SET remind_at = ? WHERE id = ?
updateCronTodoNextTime(table, todoId, nextTs) ==
  [i \in DOMAIN table |->
     IF i = todoId THEN [table[i] EXCEPT !.remind_at = nextTs] ELSE table[i]]

\* --------------------------------------------------------- sendConfirmation
\* the rule field of the callback data 'sv|ts|rule|allDay': cronRule || 'n'
svRule(cronRule) == IF cronRule.kind = "null" THEN Rule("n", {}, 0, 0)
                    ELSE cronRule

\* handleCallbackQuery, data 'sv|...': the accepting user saves what the
\* confirmation message presented
Save(c) ==
  /\ saves < MaxSaves
  /\ Free >= 1
  /\ todos' = addTodo(todos, nextId, c.user_id, c.task, c.remindAt,
                      svRule(c.cronRule), c.allDay)
  /\ nextId' = nextId + 1
  /\ saves' = saves + 1
  /\ UNCHANGED <<now, sweep, sent, lastEv, faults, chat, kb, list, overlap, parsing, lastReminded>>

\* the clock between two invocations (a sweep reads it once, at its start)
Tick(t) ==
  /\ sweep.pc = "idle"
  /\ t > now
  /\ now' = t
  /\ UNCHANGED <<todos, nextId, sweep, sent, lastEv, faults, saves, chat, kb, list, overlap, parsing, lastReminded>>

\* ------------------------------------------------ processScheduledReminders
\* ids in ascending order, the order SELECT returns the rows in
RECURSIVE SortedIds(_)
SortedIds(S) ==
  IF S = {} THEN << >>
  ELSE LET m == CHOOSE x \in S : \A y \in S : x <= y
       IN  <<m>> \o SortedIds(S \ {m})

\* variant: the SELECT does not look at status
allReminders_anyStatus(table, nowTs) ==
  {i \in DOMAIN table : /\ table[i].remind_at > 0
                        /\ table[i].remind_at <= nowTs}

\* variant: the upper limit of the SELECT is missing
allReminders_unlimited(table, nowTs) ==
  {i \in DOMAIN table : /\ table[i].status = 0
                        /\ table[i].remind_at > 0}

\* variant: the SELECT has no lower limit on remind_at
allReminders_anyTime(table, nowTs) ==
  {i \in DOMAIN table : /\ table[i].status = 0
                        /\ table[i].remind_at <= nowTs}

\* SELECT * FROM todos WHERE status = 0 AND remind_at > 0 AND remind_at <= ?
allReminders(table, nowTs) ==
  {i \in DOMAIN table : /\ table[i].status = 0
                        /\ table[i].remind_at > 0
                        /\ table[i].remind_at <= nowTs}

\* ISO weekday of the civil (UTC+8) date of the sweep instant
currentDayOfWeekISO(nowTs) ==
  LET dow == getDay(nowTs + TAIPEI_OFFSET * 60)
  IN  IF dow = 0 THEN 7 ELSE dow

\* variant: the weekday is taken from the unshifted instant
passesFilter_unshifted(row, nowTs) ==
  IF row.cron_rule.kind = "weekly"
  THEN (IF getDay(nowTs) = 0 THEN 7 ELSE getDay(nowTs)) \in row.cron_rule.days
  ELSE TRUE

\* variant: no weekday filter
passesFilter_anyDay(row, nowTs) == TRUE

\* the weekday filter: a 'weekly:' row passes only on a weekday of its set
passesFilter(row, nowTs) ==
  IF row.cron_rule.kind = "weekly"
  THEN currentDayOfWeekISO(nowTs) \in row.cron_rule.days
  ELSE TRUE

remindersToProcess(table, nowTs) ==
  {i \in allReminders(table, nowTs) : passesFilter(table[i], nowTs)}

\* the todo objects of the loop: the rows as the SELECT returned them
Snapshot(table, ids) ==
  [k \in 1..Len(ids) |-> [id |-> ids[k], row |-> table[ids[k]]]]

\* !todo.cron_rule
isOneShot(row) == row.cron_rule.kind = "null"

\* variant: the next instant is stepped from the sweep instant
nextTsOf_fromNow(row, nowTs) == calculateNext(nowTs, row.cron_rule)

\* variant: a reminder fired more than a day late skips what it missed
nextTsOf_skipMissed(row, nowTs) ==
  IF nowTs - row.remind_at > SecPerDay
  THEN calculateNext(nowTs, row.cron_rule)
  ELSE calculateNext(row.remind_at, row.cron_rule)

\* variant: a late reminder is moved on by two periods at once
nextTsOf_twoPeriods(row, nowTs) ==
  IF calculateNext(row.remind_at, row.cron_rule) <= nowTs
  THEN calculateNext(calculateNext(row.remind_at, row.cron_rule),
                     row.cron_rule)
  ELSE calculateNext(row.remind_at, row.cron_rule)

\* const nextTs = calculateNext(todo.remind_at, todo.cron_rule)
nextTsOf(row, nowTs) == calculateNext(row.remind_at, row.cron_rule)

SweepStart ==
  /\ sweep.pc = "idle"
  /\ LET ids == SortedIds(remindersToProcess(todos, now))
     IN  /\ ids # << >>
         /\ Free >= Len(ids)
         /\ sweep' = [pc |-> "notify", queue |-> Snapshot(todos, ids),
                      nowTs |-> now]
  /\ lastEv' = "ok"
  /\ UNCHANGED <<todos, nextId, now, sent, faults, saves, chat, kb, list, overlap, parsing, lastReminded>>

\* variant: the catch closes the todo it failed on
Abort_closing(ev) ==
  /\ faults < MaxFaults
  /\ faults' = faults + 1
  /\ sweep' = Idle
  /\ lastEv' = ev
  /\ todos' = updateTodoStatus(todos, Head(sweep.queue).id, 1)
  /\ UNCHANGED <<nextId, now, sent, saves, chat, kb, list, overlap, parsing, lastReminded>>

\* a call threw: the catch around the whole body logs it, the sweep is over
Abort(ev) ==
  /\ faults < MaxFaults
  /\ faults' = faults + 1
  /\ sweep' = Idle
  /\ lastEv' = ev
  /\ UNCHANGED <<todos, nextId, now, sent, saves, chat, kb, list, overlap, parsing, lastReminded>>

\* await bot.api.sendMessage(todo.user_id, ...)
Notify ==
  /\ sweep.pc = "notify"
  /\ LET todo == Head(sweep.queue)
     IN  sent' = Append(sent, [id |-> todo.id, at |-> todo.row.remind_at])
  /\ sweep' = [sweep EXCEPT !.pc = "insert"]
  /\ lastEv' = "ok"
  /\ UNCHANGED <<todos, nextId, now, faults, saves, chat, kb, list, overlap, parsing, lastReminded>>

NotifyFail ==
  /\ sweep.pc = "notify"
  /\ Abort("notifyFail")

\* the history INSERT of either branch
InsertHistory ==
  /\ sweep.pc = "insert"
  /\ LET todo == Head(sweep.queue)
     IN  todos' = addHistory(todos, nextId, todo.row.user_id, todo.row.task,
                             todo.row.remind_at)
  /\ nextId' = nextId + 1
  /\ sweep' = [sweep EXCEPT !.pc = "update"]
  /\ lastEv' = "ok"
  /\ UNCHANGED <<now, sent, faults, saves, chat, kb, list, overlap, parsing, lastReminded>>

InsertFail ==
  /\ sweep.pc = "insert"
  /\ Abort("insertFail")

\* the UPDATE of either branch, then the next iteration of the loop
Update ==
  /\ sweep.pc = "update"
  /\ LET todo == Head(sweep.queue)
         nextTs == nextTsOf(todo.row, sweep.nowTs)
     IN  IF isOneShot(todo.row)
         THEN todos' = updateTodoStatus(todos, todo.id, 1)
         ELSE todos' = updateCronTodoNextTime(todos, todo.id, nextTs)
  /\ sweep' = IF Len(sweep.queue) = 1 THEN Idle
              ELSE [sweep EXCEPT !.pc = "notify", !.queue = Tail(sweep.queue)]
  /\ lastEv' = "ok"
  /\ UNCHANGED <<nextId, now, sent, faults, saves, chat, kb, list, overlap, parsing, lastReminded>>

UpdateFail ==
  /\ sweep.pc = "update"
  /\ Abort("updateFail")

\* the runtime ends the invocation while it awaits a call
Stop ==
  /\ sweep.pc # "idle"
  /\ Abort("stop")

\* ------------------------------------------------------------ one conversation
\* handleMessage: the reply is a confirmation message or the error text
Message(j) ==
  /\ chat.pc = "idle"
  /\ \E r \in {handleMessage(j, now)} :
       chat' = [chat EXCEPT !.pc = r.kind, !.json = j, !.offer = r]
  /\ UNCHANGED <<todos, nextId, now, sweep, sent, lastEv, faults, saves, kb, list, overlap, parsing, lastReminded>>

\* handleCallbackQuery, data 'sv|ts|rule|allDay' of the confirmation; the
\* schedulers of the other builds are followed on the same stored values
Accept ==
  /\ chat.pc = "confirm"
  /\ ~chat.offer.nan
  /\ Free >= 1
  /\ todos' = addTodo(todos, nextId, "u1", "a", chat.offer.remindAt,
                      svRule(chat.offer.cronRule), chat.offer.allDay)
  /\ nextId' = nextId + 1
  /\ chat' = [chat EXCEPT !.pc = "saved", !.id = nextId,
                          !.main = Sched(chat.offer.remindAt, 0, 0),
                          !.part002 = Sched(chat.offer.remindAt, 0, 0)]
  /\ UNCHANGED <<now, sweep, sent, lastEv, faults, saves, kb, list, overlap, parsing, lastReminded>>

\* parseInt('NaN') is bound to remind_at INTEGER NOT NULL: the INSERT
\* throws and the catch replies with the database error
AcceptInvalid ==
  /\ chat.pc = "confirm"
  /\ chat.offer.nan
  /\ chat' = [chat EXCEPT !.pc = "dberror"]
  /\ UNCHANGED <<todos, nextId, now, sweep, sent, lastEv, faults, saves, kb, list, overlap, parsing, lastReminded>>

\* handleCallbackQuery, data 'cancel'
Cancel ==
  /\ chat.pc = "confirm"
  /\ chat' = [chat EXCEPT !.pc = "cancelled"]
  /\ UNCHANGED <<todos, nextId, now, sweep, sent, lastEv, faults, saves, kb, list, overlap, parsing, lastReminded>>

\* a firing of the saved recurring reminder: the reschedule of
\* processScheduledReminders, calculateNext on the stored triggerAt
Fire ==
  /\ chat.pc = "saved"
  /\ ~isOneShot(todos[chat.id])
  /\ chat.n < MaxFires
  /\ todos' = updateCronTodoNextTime(todos, chat.id,
                                     nextTsOf(todos[chat.id], now))
  /\ chat' = [chat EXCEPT !.last = todos[chat.id].remind_at, !.n = chat.n + 1]
  /\ UNCHANGED <<nextId, now, sweep, sent, lastEv, faults, saves, kb, list, overlap, parsing, lastReminded>>

\* the same firing in the scheduled handler of main.js
FireMain ==
  /\ chat.pc = "saved"
  /\ ~isOneShot(todos[chat.id])
  /\ chat.main.n < MaxFires
  /\ chat' = [chat EXCEPT !.main =
       Sched(calculateNextFromRule_main(chat.main.at, todos[chat.id].cron_rule),
             chat.main.at, chat.main.n + 1)]
  /\ UNCHANGED <<todos, nextId, now, sweep, sent, lastEv, faults, saves, kb, list, overlap, parsing, lastReminded>>

\* the same firing in the scheduled handler of part_002
FirePart002 ==
  /\ chat.pc = "saved"
  /\ ~isOneShot(todos[chat.id])
  /\ chat.part002.n < MaxFires
  /\ chat' = [chat EXCEPT !.part002 =
       Sched(calculateNextFromRule(chat.part002.at, todos[chat.id].cron_rule),
             chat.part002.at, chat.part002.n + 1)]
  /\ UNCHANGED <<todos, nextId, now, sweep, sent, lastEv, faults, saves, kb, list, overlap, parsing, lastReminded>>

\* ------------------------------------------------------------- manage mode
\* the users who can press the buttons of a message
Users == {"u1", "u2"}

\* handleCallbackQuery, data 'manage_mode': the keyboard lists the active
\* todos of the user who pressed, nothing is selected
ManageMode(u) ==
  /\ kb' = IF getTodos(todos, u, 0) = {} THEN Closed(u)
           ELSE Keyboard(u, getTodos(todos, u, 0), {})
  /\ UNCHANGED <<todos, nextId, now, sweep, sent, lastEv, faults, saves, chat, list, overlap, parsing, lastReminded>>

\* handleCallbackQuery, data 'tog|tid|sIds': tid enters or leaves the
\* selection and the keyboard is drawn again from the active todos
Toggle(u, tid) ==
  /\ kb.open
  /\ tid \in kb.rows
  /\ LET sSet == IF tid \in kb.sel THEN kb.sel \ {tid} ELSE kb.sel \cup {tid}
     IN  kb' = Keyboard(u, getTodos(todos, u, 0), sSet)
  /\ UNCHANGED <<todos, nextId, now, sweep, sent, lastEv, faults, saves, chat, list, overlap, parsing, lastReminded>>

\* variant: without a selection every todo of the user is deleted
ConfirmDelete_everything(u) ==
  /\ kb.open
  /\ todos' = deleteTodosByIds(
                todos, IF kb.sel = {} THEN DOMAIN todos ELSE kb.sel, u)
  /\ kb' = Closed(u)
  /\ UNCHANGED <<nextId, now, sweep, sent, lastEv, faults, saves, chat, list,
                 overlap, parsing, lastReminded>>

\* handleCallbackQuery, data 'conf_del|ids': nothing selected is answered
\* with a notice, else the selected todos of the user are deleted and the
\* text replaces the keyboard
ConfirmDelete(u) ==
  /\ kb.open
  /\ IF kb.sel = {} THEN UNCHANGED <<todos, kb>>
     ELSE /\ todos' = deleteTodosByIds(todos, kb.sel, u)
          /\ kb' = Closed(u)
  /\ UNCHANGED <<nextId, now, sweep, sent, lastEv, faults, saves, chat, list, overlap, parsing, lastReminded>>

\* handleCallbackQuery, data 'cancel' of the keyboard
CloseKeyboard ==
  /\ kb.open
  /\ kb' = Closed(kb.by)
  /\ UNCHANGED <<todos, nextId, now, sweep, sent, lastEv, faults, saves, chat, list, overlap, parsing, lastReminded>>

\* the store under saves, complete sweeps at one instant and the manage
\* mode callbacks
ManageNext ==
  \/ \E c \in Confirmations : Save(c)
  \/ SweepStart
  \/ Notify
  \/ InsertHistory
  \/ Update
  \/ \E u \in Users : ManageMode(u)
  \/ \E u \in Users : \E tid \in kb.rows : Toggle(u, tid)
  \/ \E u \in Users : ConfirmDelete(u)
  \/ CloseKeyboard

ManageSpec == Init /\ [][ManageNext]_vars

\* ------------------------------------------- the build of main.js 371-1232
\* what saveTask reads of the parsing state of a user: the task, noTimeLimit,
\* whether reminder_type is REMINDER_TYPE_DAILY, and the instant of utcTime
ParsingState(task, noTimeLimit, daily, utcTime) ==
  [task |-> task, noTimeLimit |-> noTimeLimit, daily |-> daily,
   utcTime |-> utcTime]
ParsingStates ==
  { ParsingState("a", TRUE, TRUE, 0),
    ParsingState("b", TRUE, FALSE, 0),
    ParsingState("a", FALSE, FALSE, Now0 + 30),
    ParsingState("b", FALSE, FALSE, Now0 - 3600) }

\* saveTask: the three INSERTs; reminder_type is held in the rule field
\* (REMINDER_TYPE_DAILY as daily), a time that is not in the future is moved
\* one day on
saveTask(table, id, userId, state, nowTs) ==
  Insert(table, id,
         Row(userId, state.task,
             IF state.noTimeLimit THEN NO_TIME_LIMIT
             ELSE IF state.utcTime <= nowTs THEN state.utcTime + SecPerDay
             ELSE state.utcTime,
             IF state.noTimeLimit /\ state.daily THEN Daily ELSE NULL, 0, 0))

\* callbacks 'confirm_time', 'daily_reminder', 'no_time_limit'
SaveTask(u, state) ==
  /\ saves < MaxSaves
  /\ Free >= 1
  /\ todos' = saveTask(todos, nextId, u, state, now)
  /\ nextId' = nextId + 1
  /\ saves' = saves + 1
  /\ UNCHANGED <<now, sweep, sent, lastEv, faults, chat, kb, list, overlap, parsing, lastReminded>>

\* bot.command("list"): one button 'del_<id>' for each active todo of the
\* user; without todos the reply has no keyboard
ListCommand(u) ==
  /\ kb' = IF getTodos(todos, u, 0) = {} THEN kb
           ELSE Keyboard(u, getTodos(todos, u, 0), {})
  /\ UNCHANGED <<todos, nextId, now, sweep, sent, lastEv, faults, saves, chat, list, overlap, parsing, lastReminded>>

\* DELETE FROM todos WHERE id = ?
deleteTodo(table, todoId) ==
  [i \in DOMAIN table \ {todoId} |-> table[i]]

\* callback 'del_<id>' pressed by user u on the list message
Del(u, todoId) ==
  /\ kb.open
  /\ todoId \in kb.rows
  /\ todos' = deleteTodo(todos, todoId)
  /\ kb' = Closed(u)
  /\ UNCHANGED <<nextId, now, sweep, sent, lastEv, faults, saves, chat, list, overlap, parsing, lastReminded>>

\* ---------------------------------------------- userParsingState, main.js
\* the message handler: the local parse of a text gives a task and a time
\* after now; the state of the user is set and the confirmation message
\* with the button 'confirm_time' is sent
LocalParses ==
  { ParsingState("a", FALSE, FALSE, Now0 + 3600),
    ParsingState("b", FALSE, FALSE, Now0 + 7200) }

TextMessage(u, state) ==
  /\ state.utcTime > now
  /\ parsing' = [parsing EXCEPT
                   !.state[u] = state,
                   !.shown = parsing.shown \cup
                             {Confirmation(u, state.task, state.utcTime)}]
  /\ UNCHANGED <<todos, nextId, now, sweep, sent, lastEv, faults, saves,
                 chat, kb, list, overlap, lastReminded>>

\* callback 'confirm_time' of confirmation message m, pressed by the user
\* of its chat: with a state in the Map, saveTask(ctx, env, state) and
\* userParsingState.delete(userId); without one no branch is taken
ConfirmTime(m) ==
  /\ m \in parsing.shown
  /\ IF parsing.state[m.by] # NoState
     THEN /\ saves < MaxSaves
          /\ Free >= 1
          /\ todos' = saveTask(todos, nextId, m.by, parsing.state[m.by], now)
          /\ nextId' = nextId + 1
          /\ saves' = saves + 1
          /\ parsing' = [parsing EXCEPT !.state[m.by] = NoState,
                                        !.pressed = m]
     ELSE /\ parsing' = [parsing EXCEPT !.pressed = m]
          /\ UNCHANGED <<todos, nextId, saves>>
  /\ UNCHANGED <<now, sweep, sent, lastEv, faults, chat, kb, list, overlap, lastReminded>>

ParsingNext ==
  \/ \E u \in Users, state \in LocalParses : TextMessage(u, state)
  \/ \E u \in Users, state \in LocalParses :
       ConfirmTime(Confirmation(u, state.task, state.utcTime))

ParsingSpec == Init /\ [][ParsingNext]_vars

\* ---------------------------------------------------- scheduled, main.js
MORNING_REMINDER_HOUR == 9
EVENING_REMINDER_HOUR == 20

\* getTaipeiNow().getHours() and getMinutes()
currentHour(nowTs) == ((nowTs + TAIPEI_OFFSET * 60) % SecPerDay) \div 3600
currentMinute(nowTs) == ((nowTs + TAIPEI_OFFSET * 60) % 3600) \div 60

isMorningTime(nowTs) ==
  \/ currentHour(nowTs) = MORNING_REMINDER_HOUR - 1 /\ currentMinute(nowTs) >= 55
  \/ currentHour(nowTs) = MORNING_REMINDER_HOUR /\ currentMinute(nowTs) <= 5
isEveningTime(nowTs) ==
  \/ currentHour(nowTs) = EVENING_REMINDER_HOUR - 1 /\ currentMinute(nowTs) >= 55
  \/ currentHour(nowTs) = EVENING_REMINDER_HOUR /\ currentMinute(nowTs) <= 5

\* isSameDay of two shifted dates: year, month and date are equal
isSameDay(ts1, ts2) ==
  /\ getFullYear(ts1) = getFullYear(ts2)
  /\ getMonth(ts1) = getMonth(ts2)
  /\ getDate(ts1) = getDate(ts2)

\* todo.last_reminded, 0 for NULL
lastRemindedOf(col, id) == IF id \in DOMAIN col THEN col[id] ELSE 0

\* lastReminded && isSameDay(convertToTaipeiTime(lastReminded), taipeiNow)
hasBeenRemindedToday(last, nowTs) ==
  last # 0 /\ isSameDay(last + TAIPEI_OFFSET * 60, nowTs + TAIPEI_OFFSET * 60)

\* SELECT * FROM todos WHERE status = 0 AND reminder_type = ONCE AND
\* remind_at != NO_TIME_LIMIT AND remind_at <= ?
onceReminders(table, nowTs) ==
  {i \in DOMAIN table : /\ table[i].status = 0
                        /\ table[i].cron_rule.kind = "null"
                        /\ table[i].remind_at # NO_TIME_LIMIT
                        /\ table[i].remind_at <= nowTs}

\* SELECT * FROM todos WHERE reminder_type = DAILY AND status = 0
dailyReminders(table) ==
  {i \in DOMAIN table : table[i].cron_rule.kind = "daily"
                          /\ table[i].status = 0}

\* the daily todos the invocation sends a message for
dailyToRemind(table, col, nowTs) ==
  IF isMorningTime(nowTs) \/ isEveningTime(nowTs)
  THEN {i \in dailyReminders(table) :
          ~hasBeenRemindedToday(lastRemindedOf(col, i), nowTs)}
  ELSE {}

\* the messages of one loop, in the order of the SELECT
onceMessages(table, ids) ==
  [k \in 1..Len(ids) |-> [id |-> ids[k], at |-> table[ids[k]].remind_at]]
dailyMessages(ids, nowTs) ==
  [k \in 1..Len(ids) |-> [id |-> ids[k], at |-> nowTs]]

\* one invocation of scheduled, every call succeeding; sweep.nowTs keeps
\* the instant it read
ScheduledMain ==
  /\ sweep.pc = "idle"
  /\ todos' = [i \in DOMAIN todos |->
                IF i \in onceReminders(todos, now)
                THEN [todos[i] EXCEPT !.status = 1] ELSE todos[i]]
  /\ lastReminded' =
       [i \in DOMAIN lastReminded \cup dailyToRemind(todos, lastReminded, now)
          |-> IF i \in dailyToRemind(todos, lastReminded, now) THEN now
              ELSE lastReminded[i]]
  /\ sent' = sent \o onceMessages(todos, SortedIds(onceReminders(todos, now)))
                  \o dailyMessages(
                       SortedIds(dailyToRemind(todos, lastReminded, now)), now)
  /\ sweep' = [pc |-> "idle", queue |-> << >>, nowTs |-> now]
  /\ UNCHANGED <<nextId, now, lastEv, faults, saves, chat, kb, list, overlap,
                 parsing>>

\* the sweep instants around the two windows of a civil day: 08:54, 08:55,
\* 09:05, 09:06, 19:54, 19:55, 20:05 and 20:06 of the civil days after Now0
WindowOffsets ==
  { 8 * 3600 + 54 * 60, 8 * 3600 + 55 * 60, 9 * 3600 + 5 * 60,
    9 * 3600 + 6 * 60, 19 * 3600 + 54 * 60, 19 * 3600 + 55 * 60,
    20 * 3600 + 5 * 60, 20 * 3600 + 6 * 60 }
DailyInstants ==
  {Now0 + 60 + d * SecPerDay + o : d \in 0..MaxDays, o \in WindowOffsets}

DailyNext ==
  \/ \E u \in Users, state \in ParsingStates : SaveTask(u, state)
  \/ \E t \in DailyInstants : Tick(t)
  \/ ScheduledMain

DailySpec == Init /\ [][DailyNext]_vars

MainNext ==
  \/ \E u \in Users, state \in ParsingStates : SaveTask(u, state)
  \/ \E u \in Users : ListCommand(u)
  \/ \E u \in Users : \E todoId \in kb.rows : Del(u, todoId)

MainSpec == Init /\ [][MainNext]_vars

\* --------------------------------------------------------------- renderList
\* the while loop of the weekly branch: currentDate steps one day at a time
\* from the start of the range while it is not after its end, and the
\* weekday is read with getDay
RECURSIVE weeklyInRange(_, _, _)
weeklyInRange(currentDate, endDate, days) ==
  IF currentDate > endDate THEN FALSE
  ELSE IF (IF getDay(currentDate) = 0 THEN 7 ELSE getDay(currentDate))
            \in days THEN TRUE
  ELSE weeklyInRange(currentDate + SecPerDay, endDate, days)

\* the callback of results.filter
listed(row, start, end) ==
  IF row.cron_rule.kind # "null"
  THEN IF row.cron_rule.kind = "weekly"
       THEN weeklyInRange(start, end, row.cron_rule.days)
       ELSE row.cron_rule.kind = "daily"
  ELSE row.remind_at = NO_TIME_LIMIT
       \/ (row.remind_at >= start /\ row.remind_at <= end)

\* startTs || new Date().setHours(0,0,0,0)/1000 and
\* endTs || new Date().setHours(23,59,59,999)/1000; null is 0 here
rangeStart(startTs, nowTs) ==
  IF startTs # 0 THEN startTs ELSE DayOf(nowTs) * SecPerDay
rangeEnd(endTs, nowTs) ==
  IF endTs # 0 THEN endTs ELSE DayOf(nowTs) * SecPerDay + SecPerDay - 1

\* the todos renderList shows to userId for the range
renderList(table, userId, start, end) ==
  {i \in getTodos(table, userId, 0) : listed(table[i], start, end)}

\* a range of whole civil days: from 00:00:00 of the civil day first days
\* after that of Now0 to 23:59:59 of the civil day last days after it
Range(first, last) ==
  [start |-> (DayOf(Now0 + TAIPEI_OFFSET * 60) + first) * SecPerDay
               - TAIPEI_OFFSET * 60,
   end |-> (DayOf(Now0 + TAIPEI_OFFSET * 60) + last) * SecPerDay
             + SecPerDay - 1 - TAIPEI_OFFSET * 60]
\* no range
NoRange == [start |-> 0, end |-> 0]
\* the ranges of the list queries: none, and json.start and json.end of the
\* replies to 'today', 'tomorrow', 'the day after', 'this week'
Ranges == {NoRange, Range(0, 0), Range(1, 1), Range(2, 2), Range(0, 6)}

\* handleQuery in mode list without text: the seven days before today up
\* to the end of today
recentStart(nowTs) == (DayOf(nowTs) - 7) * SecPerDay
recentEnd(nowTs) == DayOf(nowTs) * SecPerDay + SecPerDay - 1

\* /list with a query text the model answers with range q
ListQuery(u, q) ==
  /\ list' = ListMessage(u, rangeStart(q.start, now), rangeEnd(q.end, now),
                         renderList(todos, u, rangeStart(q.start, now),
                                    rangeEnd(q.end, now)))
  /\ UNCHANGED <<todos, nextId, now, sweep, sent, lastEv, faults, saves,
                 chat, kb, overlap, parsing, lastReminded>>

\* /list without a query text
ListRecent(u) ==
  /\ list' = ListMessage(u, recentStart(now), recentEnd(now),
                         renderList(todos, u, recentStart(now),
                                    recentEnd(now)))
  /\ UNCHANGED <<todos, nextId, now, sweep, sent, lastEv, faults, saves,
                 chat, kb, overlap, parsing, lastReminded>>

ListNext ==
  \/ \E c \in Confirmations : Save(c)
  \/ \E t \in Instants : Tick(t)
  \/ \E u \in Users, q \in Ranges : ListQuery(u, q)
  \/ \E u \in Users : ListRecent(u)

ListSpec == Init /\ [][ListNext]_vars

\* -------------------------------------------------- scheduled of part_002
\* SELECT * FROM todos WHERE status = 0 AND all_day = 0 AND remind_at > 0
\* AND remind_at <= ?
timedTasks(table, nowTs) ==
  {i \in DOMAIN table : /\ table[i].status = 0
                        /\ table[i].all_day = 0
                        /\ table[i].remind_at > 0
                        /\ table[i].remind_at <= nowTs}

\* one iteration of the loop over timedTasks: the message, then the UPDATE
\* of a one-shot todo, or the history INSERT and the UPDATE of a recurring
\* one; st holds the table, its AUTOINCREMENT counter and the messages
\* sent
notifyAndPersist(st, id) ==
  IF isOneShot(st.table[id])
  THEN [table |-> updateTodoStatus(st.table, id, 1),
        nextId |-> st.nextId,
        sent |-> Append(st.sent,
                        [id |-> id, at |-> st.table[id].remind_at])]
  ELSE [table |->
          updateCronTodoNextTime(
            addHistory(st.table, st.nextId, st.table[id].user_id,
                       st.table[id].task, st.table[id].remind_at),
            id,
            calculateNextFromRule(st.table[id].remind_at,
                                  st.table[id].cron_rule)),
        nextId |-> st.nextId + 1,
        sent |-> Append(st.sent,
                        [id |-> id, at |-> st.table[id].remind_at])]

RECURSIVE scheduledLoop(_, _)
scheduledLoop(queue, st) ==
  IF queue = << >> THEN st
  ELSE scheduledLoop(Tail(queue), notifyAndPersist(st, Head(queue)))

\* one invocation of scheduled, every call of it succeeding
Scheduled ==
  /\ Free >= Cardinality({i \in timedTasks(todos, now) :
                            ~isOneShot(todos[i])})
  /\ \E st \in {scheduledLoop(SortedIds(timedTasks(todos, now)),
                               [table |-> todos, nextId |-> nextId,
                                sent |-> sent])} :
       /\ todos' = st.table
       /\ nextId' = st.nextId
       /\ sent' = st.sent
  /\ UNCHANGED <<now, sweep, lastEv, faults, saves, chat, kb, list, overlap, parsing, lastReminded>>

\* the confirmation messages with the other value of allDay
AllDayTwins ==
  {Conf(c.user_id, c.task, c.remindAt, c.cronRule, 1 - c.allDay) :
     c \in Confirmations}

Part002Next ==
  \/ \E c \in Confirmations \cup AllDayTwins : Save(c)
  \/ \E t \in Instants : Tick(t)
  \/ Scheduled

Part002Spec == Init /\ [][Part002Next]_vars

ChatNext ==
  \/ \E t \in Instants : chat.pc = "idle" /\ Tick(t)
  \/ \E j \in Texts : Message(j)
  \/ Accept
  \/ AcceptInvalid
  \/ Cancel
  \/ Fire
  \/ FireMain
  \/ FirePart002

ChatSpec == Init /\ [][ChatNext]_vars

\* one conversation among the confirmation messages of other conversations:
\* those are accepted before the message, or between the confirmation it is
\* answered with and its acceptance
ConfirmNext ==
  \/ \E j \in Texts : Message(j)
  \/ \E c \in Confirmations : Save(c)
  \/ Accept
  \/ AcceptInvalid
  \/ Cancel

ConfirmSpec == Init /\ [][ConfirmNext]_vars

Next ==
  \/ \E c \in Confirmations : Save(c)
  \/ \E t \in Instants : Tick(t)
  \/ SweepStart
  \/ Notify
  \/ NotifyFail
  \/ InsertHistory
  \/ InsertFail
  \/ Update
  \/ UpdateFail
  \/ Stop

Spec == Init /\ [][Next]_vars

\* ------------------------------------------------------------- redelivery
\* the 'sv|...' callback of the accepted confirmation is delivered again (a
\* second press before the message is edited, or the update sent again):
\* the handler reads data and message text as before and calls addTodo
Redeliver ==
  /\ chat.pc = "saved"
  /\ saves < MaxSaves
  /\ Free >= 1
  /\ todos' = addTodo(todos, nextId, "u1", "a", chat.offer.remindAt,
                      svRule(chat.offer.cronRule), chat.offer.allDay)
  /\ nextId' = nextId + 1
  /\ saves' = saves + 1
  /\ UNCHANGED <<now, sweep, sent, lastEv, faults, chat, kb, list, overlap, parsing, lastReminded>>

RedeliveryNext ==
  \/ \E j \in Texts : Message(j)
  \/ Accept
  \/ AcceptInvalid
  \/ Cancel
  \/ Redeliver

RedeliverySpec == Init /\ [][RedeliveryNext]_vars

\* ------------------------------------------------- overlapping invocations
\* rows the second invocation still has to insert a history row for
ReservedOverlap ==
  IF overlap.pc \in {"notify", "insert"} THEN Len(overlap.queue)
  ELSE IF overlap.pc = "update" THEN Len(overlap.queue) - 1
  ELSE 0

\* the reminders a second invocation can find: those due at Now0
OverlapConfirmations == {c \in Confirmations : c.remindAt = Now0 - 3600}

\* the first invocation starts; the table has room for both
OverlapSweepStart ==
  /\ Free - ReservedOverlap >= Cardinality(remindersToProcess(todos, now))
  /\ SweepStart

\* the SELECT and the weekday filter of the second invocation
OverlapStart ==
  /\ overlap.pc = "idle"
  /\ remindersToProcess(todos, now) # {}
  /\ Free - ReservedOverlap >= Cardinality(remindersToProcess(todos, now))
  /\ overlap' = [pc |-> "notify",
                 queue |-> Snapshot(todos,
                                    SortedIds(remindersToProcess(todos, now))),
                 nowTs |-> now]
  /\ UNCHANGED <<todos, nextId, now, sweep, sent, lastEv, faults, saves,
                 chat, kb, list, parsing, lastReminded>>

\* its sendMessage
OverlapNotify ==
  /\ overlap.pc = "notify"
  /\ sent' = Append(sent, [id |-> Head(overlap.queue).id,
                           at |-> Head(overlap.queue).row.remind_at])
  /\ overlap' = [overlap EXCEPT !.pc = "insert"]
  /\ UNCHANGED <<todos, nextId, now, sweep, lastEv, faults, saves, chat, kb,
                 list, parsing, lastReminded>>

\* its history INSERT
OverlapInsertHistory ==
  /\ overlap.pc = "insert"
  /\ todos' = addHistory(todos, nextId, Head(overlap.queue).row.user_id,
                         Head(overlap.queue).row.task,
                         Head(overlap.queue).row.remind_at)
  /\ nextId' = nextId + 1
  /\ overlap' = [overlap EXCEPT !.pc = "update"]
  /\ UNCHANGED <<now, sweep, sent, lastEv, faults, saves, chat, kb, list, parsing, lastReminded>>

\* its UPDATE, then the next iteration of its loop
OverlapUpdate ==
  /\ overlap.pc = "update"
  /\ todos' = IF isOneShot(Head(overlap.queue).row)
              THEN updateTodoStatus(todos, Head(overlap.queue).id, 1)
              ELSE updateCronTodoNextTime(
                     todos, Head(overlap.queue).id,
                     nextTsOf(Head(overlap.queue).row, overlap.nowTs))
  /\ overlap' = IF Len(overlap.queue) = 1 THEN Idle
                ELSE [overlap EXCEPT !.pc = "notify",
                                     !.queue = Tail(overlap.queue)]
  /\ UNCHANGED <<nextId, now, sweep, sent, lastEv, faults, saves, chat, kb,
                 list, parsing, lastReminded>>

OverlapNext ==
  \/ \E c \in OverlapConfirmations : Save(c)
  \/ \E t \in Instants : Tick(t)
  \/ OverlapSweepStart
  \/ Notify
  \/ InsertHistory
  \/ Update
  \/ OverlapStart
  \/ OverlapNotify
  \/ OverlapInsertHistory
  \/ OverlapUpdate

OverlapSpec == Init /\ [][OverlapNext]_vars

\* the sweep when it keeps being invoked and every call of it succeeds; the
\* rule 'weekly:8' is one handleMessage offers and Accept stores
LiveConfirmations ==
  Confirmations \cup {Conf("u1", "a", Now0 - 3600, Weekly({8}), 0)}

SweepStep ==
  \/ SweepStart
  \/ Notify
  \/ InsertHistory
  \/ Update

LiveNext ==
  \/ \E c \in LiveConfirmations : Save(c)
  \/ \E t \in Instants : Tick(t)
  \/ SweepStep

\* the cron trigger invokes the sweep every minute and an invocation runs
\* to its end; the clock goes on
LiveSpec ==
  /\ Init
  /\ [][LiveNext]_vars
  /\ WF_vars(SweepStep)
  /\ WF_vars(\E t \in Instants : Tick(t))

TypeOK ==
  /\ nextId \in 1..(MaxRows + 1)
  /\ DOMAIN todos \subseteq 1..MaxRows
  /\ now \in Instants
  /\ sweep.pc \in {"idle", "notify", "insert", "update"}

\* ------------------------------------------------------------- properties
\* the todo the loop is at
Cur == Head(sweep.queue)
\* number of messages delivered for row id
Notified(id) == Cardinality({k \in 1..Len(sent) : sent[k].id = id})
\* the steps of the loop, seen from a pair of states
InsertStep == sweep.pc = "insert" /\ sweep'.pc = "update"
UpdateStep == sweep.pc = "update" /\ sweep' # sweep /\ faults' = faults
NotifyStep == sweep.pc = "notify" /\ sweep'.pc = "insert"
SameRows(ids) == \A i \in ids : todos'[i] = todos[i]

\* C1: firing a recurring reminder never closes it: the firing inserts
\* exactly one done row with the owner, the task and the fired triggerAt of
\* the reminder, and then leaves the live row active with its triggerAt
\* replaced by calculateNext(fired triggerAt, rule); nothing else changes.
C1_RecurringFiringKeepsActive ==
  [][ /\ (InsertStep /\ ~isOneShot(Cur.row)) =>
           /\ DOMAIN todos' = DOMAIN todos \cup {nextId}
           /\ nextId \notin DOMAIN todos
           /\ todos'[nextId].status = 1
           /\ todos'[nextId].user_id = Cur.row.user_id
           /\ todos'[nextId].task = Cur.row.task
           /\ todos'[nextId].remind_at = Cur.row.remind_at
           /\ SameRows(DOMAIN todos)
      /\ (UpdateStep /\ ~isOneShot(Cur.row)) =>
           /\ DOMAIN todos' = DOMAIN todos
           /\ todos'[Cur.id].status = 0
           /\ todos'[Cur.id].remind_at =
                calculateNext(Cur.row.remind_at, Cur.row.cron_rule)
           /\ todos'[Cur.id] =
                [todos[Cur.id] EXCEPT !.remind_at = todos'[Cur.id].remind_at]
           /\ SameRows(DOMAIN todos \ {Cur.id})
           /\ \E h \in DOMAIN todos :
                /\ todos[h].status = 1
                /\ todos[h].user_id = Cur.row.user_id
                /\ todos[h].task = Cur.row.task
                /\ todos[h].remind_at = Cur.row.remind_at
      /\ (NotifyStep /\ ~isOneShot(Cur.row)) => todos' = todos
    ]_vars

\* a recurring reminder has fired and been rescheduled to a later instant
C1_Witness ==
  \E k \in 1..Len(sent) :
    LET i == sent[k].id
    IN  /\ i \in DOMAIN todos
        /\ ~isOneShot(todos[i])
        /\ todos[i].status = 0
        /\ todos[i].remind_at = calculateNext(sent[k].at, todos[i].cron_rule)
        /\ todos[i].remind_at > sent[k].at
        /\ \E h \in DOMAIN todos :
             /\ todos[h].status = 1
             /\ todos[h].user_id = todos[i].user_id
             /\ todos[h].task = todos[i].task
             /\ todos[h].remind_at = sent[k].at

\* C2: a one-shot reminder goes from active to done only in the persist
\* step of a sweep whose instant satisfies 0 < triggerAt <= now, and a done
\* row never becomes active again, so the transition happens at most once.
C2_OneShotDoneOnlyWhenDue ==
  [][ \A i \in DOMAIN todos :
        /\ (todos[i].status = 1) => (i \in DOMAIN todos' /\ todos'[i].status = 1)
        /\ (isOneShot(todos[i]) /\ todos[i].status = 0 /\ i \in DOMAIN todos'
              /\ todos'[i].status = 1) =>
             /\ UpdateStep
             /\ Cur.id = i
             /\ todos[i].remind_at > 0
             /\ todos[i].remind_at <= sweep.nowTs
             /\ sweep.nowTs <= now
    ]_vars

\* one one-shot reminder was closed by a sweep while another, not yet due,
\* is still active after that sweep
C2_Witness ==
  /\ \E i \in DOMAIN todos :
       /\ isOneShot(todos[i]) /\ todos[i].status = 1 /\ Notified(i) = 1
       /\ todos[i].remind_at <= now
  /\ \E j \in DOMAIN todos :
       /\ isOneShot(todos[j]) /\ todos[j].status = 0
       /\ todos[j].remind_at > now
  /\ sweep.pc = "idle"

\* C3 as stated: whenever a fired one-shot reminder is done, exactly one
\* notification was sent for it over the whole run.
C3_ExactlyOneNotification ==
  \A i \in DOMAIN todos :
    (isOneShot(todos[i]) /\ todos[i].status = 1 /\ Notified(i) > 0)
      => Notified(i) = 1

\* C3 amended: the persist step of a fired one-shot reminder leaves it done,
\* no notification is sent for a done row afterwards and no later sweep
\* selects it; the notifications sent for it are one for the sweep that
\* completed the persist and one for each earlier sweep that ended between
\* its notify and the end of its persist.
C3_NoNotificationAfterDone ==
  /\ [](\A i \in DOMAIN todos :
          (isOneShot(todos[i]) /\ todos[i].status = 1 /\ Notified(i) > 0)
            => Notified(i) <= 1 + faults)
  /\ [][ /\ (UpdateStep /\ isOneShot(Cur.row)) => todos'[Cur.id].status = 1
         /\ \A i \in DOMAIN todos :
              todos[i].status = 1 =>
                /\ Notified(i)' = Notified(i)
                /\ todos'[i] = todos[i]
                /\ \A k \in 1..Len(sweep'.queue) :
                     (sweep'.queue[k].id = i) =>
                       \E m \in 1..Len(sweep.queue) : sweep.queue[m].id = i
     ]_vars

\* a one-shot reminder is done after one notification and a later sweep
\* has run without touching it
C3_Witness ==
  \E i \in DOMAIN todos :
    /\ isOneShot(todos[i]) /\ todos[i].status = 1 /\ Notified(i) = 1
    /\ Len(sent) >= 2
    /\ sent[1].id = i
    /\ sweep.pc = "idle"

\* C4 as stated: firing a recurring reminder always moves its triggerAt
\* strictly past the fired instant.
C4_NextStrictlyLater ==
  [][ (UpdateStep /\ ~isOneShot(Cur.row) /\ Cur.id \in DOMAIN todos) =>
        todos'[Cur.id].remind_at > Cur.row.remind_at ]_vars

\* the triggerAt values of the notifications sent for row i, in order
RECURSIVE AtsOf(_, _)
AtsOf(i, k) ==
  IF k = 0 THEN << >>
  ELSE IF sent[k].id = i THEN Append(AtsOf(i, k - 1), sent[k].at)
  ELSE AtsOf(i, k - 1)
FiredAts(i) == AtsOf(i, Len(sent))

\* C5: the triggerAt of a daily reminder changes only in the persist step
\* of a firing and then by exactly 86400 s, whatever the sweep instant; the
\* triggerAt values of its firings are T, T + 86400, T + 2 * 86400, ...,
\* a value being repeated only for a firing whose persist did not complete.
C5_DailyNoDrift ==
  /\ [](\A i \in DOMAIN todos :
          todos[i].cron_rule.kind = "daily" =>
            LET F == FiredAts(i)
            IN  /\ \A k \in 1..Len(F) :
                     /\ (F[k] - F[1]) % SecPerDay = 0
                     /\ (F[k] - F[1]) \div SecPerDay \in 0..(k - 1)
                     /\ faults = 0 => F[k] = F[1] + (k - 1) * SecPerDay
                     /\ k > 1 => F[k] - F[k - 1] \in {0, SecPerDay}
                /\ Len(F) > 0 =>
                     todos[i].remind_at - F[Len(F)] \in {0, SecPerDay})
  /\ [][ \A i \in DOMAIN todos :
           (todos[i].cron_rule.kind = "daily" /\ i \in DOMAIN todos'
              /\ todos'[i].remind_at # todos[i].remind_at) =>
             /\ UpdateStep
             /\ Cur.id = i
             /\ todos[i].remind_at = FiredAts(i)[Len(FiredAts(i))]
             /\ todos'[i].remind_at = todos[i].remind_at + SecPerDay
     ]_vars

\* a daily reminder has just been notified for the third time, for T,
\* T + 1 d and T + 2 d, by a sweep that runs after its triggerAt
C5_Witness ==
  /\ sweep.pc = "insert"
  /\ Cur.row.cron_rule.kind = "daily"
  /\ faults = 0
  /\ LET F == FiredAts(Cur.id)
     IN  /\ Len(F) = 3
         /\ F[2] = F[1] + SecPerDay
         /\ F[3] = F[1] + 2 * SecPerDay
         /\ sweep.nowTs > F[3]

\* C6: the triggerAt written when a recurring reminder fires is the same
\* for every sweep instant: it is a function of the stored triggerAt and
\* rule of the fired row only.
C6_NextIndependentOfNow ==
  [][ (UpdateStep /\ ~isOneShot(Cur.row) /\ Cur.id \in DOMAIN todos) =>
        \A n \in Instants \cup {sweep.nowTs} :
          todos'[Cur.id].remind_at = nextTsOf(Cur.row, n) ]_vars

\* a sweep that ran more than a day after the triggerAt of a recurring
\* reminder of one of the four kinds has rescheduled it and goes on
C6_Witness ==
  /\ sweep.pc = "notify"
  /\ Len(sent) > 0
  /\ LET s == sent[Len(sent)]
     IN  /\ s.id \in DOMAIN todos
         /\ todos[s.id].cron_rule.kind \in {"daily", "weekly", "monthly", "yearly"}
         /\ todos[s.id].remind_at = calculateNext(s.at, todos[s.id].cron_rule)
         /\ todos[s.id].remind_at > s.at
         /\ sweep.nowTs - s.at > SecPerDay

\* ids of the todos a sweep state still holds
QueueIds(sw) == {sw.queue[k].id : k \in 1..Len(sw.queue)}
StartStep == sweep.pc = "idle" /\ sweep'.pc = "notify"
\* ISO weekday (Monday = 1 .. Sunday = 7) of the civil UTC+8 date of ts;
\* 1970-01-01 was a Thursday
CivilIsoWeekday(ts) == ((((ts + 8 * 3600) \div SecPerDay) + 3) % 7) + 1
\* a weekly rule on a civil weekday of its set, any other rule always
OnItsWeekday(row, ts) ==
  row.cron_rule.kind = "weekly" => CivilIsoWeekday(ts) \in row.cron_rule.days
\* active, timed and with triggerAt <= ts
DueAt(table, ts) ==
  {i \in DOMAIN table : /\ table[i].status = 0
                        /\ table[i].remind_at # NO_TIME_LIMIT
                        /\ table[i].remind_at <= ts}

\* C7 as stated: a sweep selects exactly the reminders that are active,
\* timed and have triggerAt <= now, for every rule kind.
C7_SelectsExactlyDue ==
  [][ StartStep => QueueIds(sweep') = DueAt(todos, now) ]_vars

\* C7 amended: a sweep selects exactly the reminders that are active, timed
\* (triggerAt > 0) and have triggerAt <= now and, when their rule is weekly,
\* whose weekday set contains the civil ISO weekday of now; it works through
\* them one at a time, changes no row outside that selection except for the
\* history row it inserts, and leaves part of it unprocessed only when a
\* call fails or the invocation is stopped.
C7_SelectsDueOnMatchingWeekday ==
  [][ /\ StartStep =>
           /\ QueueIds(sweep') =
                {i \in DueAt(todos, now) :
                   todos[i].remind_at > 0 /\ OnItsWeekday(todos[i], now)}
           /\ \A k \in 1..Len(sweep'.queue) :
                sweep'.queue[k].row = todos[sweep'.queue[k].id]
           /\ sweep'.nowTs = now
      /\ sweep.pc # "idle" =>
           /\ sweep'.queue \in {sweep.queue, Tail(sweep.queue), << >>}
           /\ (sweep'.queue # sweep.queue /\ faults' = faults) => UpdateStep
           /\ (NotifyStep \/ InsertStep \/ UpdateStep) =>
                SameRows(DOMAIN todos \ {Cur.id})
           /\ (NotifyStep \/ UpdateStep) => DOMAIN todos' = DOMAIN todos
           /\ Len(sent') > Len(sent) =>
                /\ NotifyStep
                /\ sent'[Len(sent')].id = Cur.id
    ]_vars

\* a sweep is under way that left out a due weekly reminder, because of the
\* weekday, and selected a reminder saved after it
C7_Witness ==
  /\ sweep.pc = "notify"
  /\ lastEv = "ok"
  /\ \E i \in DOMAIN todos :
       /\ todos[i].cron_rule.kind = "weekly"
       /\ todos[i].status = 0
       /\ todos[i].remind_at > 0
       /\ todos[i].remind_at <= sweep.nowTs
       /\ Notified(i) = 0
       /\ i \notin QueueIds(sweep)
       /\ i < Cur.id

\* row i was notified for its current triggerAt and is still active
Pending(i) ==
  /\ todos[i].status = 0
  /\ Notified(i) > 0
  /\ FiredAts(i)[Len(FiredAts(i))] = todos[i].remind_at
\* a history row of the firing of row i at its current triggerAt exists
HasHistory(i) ==
  \E h \in DOMAIN todos :
    /\ todos[h].status = 1
    /\ todos[h].user_id = todos[i].user_id
    /\ todos[h].task = todos[i].task
    /\ todos[h].remind_at = todos[i].remind_at
    /\ h # i

\* C8 as stated: a reminder that was notified but not persisted is fired
\* again by the next sweep.
C8_RefiredByNextSweep ==
  [][ StartStep =>
        \A i \in DOMAIN todos :
          (Pending(i) /\ ~HasHistory(i)) => i \in QueueIds(sweep') ]_vars

\* C8 amended: the notification of a due reminder is sent before any persist
\* write for it; an invocation that ends after the notify and before the
\* persist leaves the reminder active with an unchanged triggerAt, and the
\* reminder is selected again by the next sweep or, when its rule is weekly,
\* by the next sweep that runs on a civil weekday of its set.
C8_NotifyThenPersist ==
  /\ [](sweep.pc \in {"insert", "update"} =>
          /\ sent # << >>
          /\ sent[Len(sent)].id = Cur.id
          /\ sent[Len(sent)].at = Cur.row.remind_at)
  /\ [][ /\ (InsertStep \/ UpdateStep) => sent' = sent
         /\ (sweep.pc = "insert" /\ sweep'.pc = "idle") =>
              /\ todos' = todos
              /\ todos[Cur.id] = Cur.row
              /\ Cur.row.status = 0
         /\ StartStep =>
              \A i \in DOMAIN todos :
                (Pending(i) /\ OnItsWeekday(todos[i], now)) =>
                  i \in QueueIds(sweep')
     ]_vars

\* after an invocation ended between the notify and the persist of a
\* reminder, a later sweep has selected the reminder again
C8_Witness ==
  /\ sweep.pc = "notify"
  /\ faults > 0
  /\ Cur.id \in DOMAIN todos
  /\ Pending(Cur.id)
  /\ ~HasHistory(Cur.id)
  /\ Cur.row = todos[Cur.id]

\* C9 as stated: a failed delivery for one due reminder does not end the
\* sweep; it goes on with the other reminders it selected.
C9_FailedNotifyDoesNotStopSweep ==
  [][ (sweep.pc = "notify" /\ faults' = faults + 1 /\ lastEv' = "notifyFail"
         /\ Len(sweep.queue) > 1) =>
        /\ sweep'.pc = "notify"
        /\ sweep'.queue = Tail(sweep.queue) ]_vars

\* C10 as stated: a store failure while a recurring reminder is fired never
\* leaves the history row inserted and the triggerAt not advanced.
C10_PersistAllOrNothing ==
  [][ (sweep.pc \in {"insert", "update"} /\ ~isOneShot(Cur.row)
         /\ faults' = faults + 1 /\ lastEv' \in {"insertFail", "updateFail"}) =>
        ~ /\ sweep.pc = "update"
          /\ \E h \in DOMAIN todos' :
               /\ todos'[h].status = 1
               /\ todos'[h].user_id = Cur.row.user_id
               /\ todos'[h].task = Cur.row.task
               /\ todos'[h].remind_at = Cur.row.remind_at
          /\ todos'[Cur.id].remind_at = Cur.row.remind_at ]_vars

\* C11: done is terminal: in every step, whichever operation takes it (a
\* save, a step of the sweep, a manage mode callback), a row that is done and
\* still stored stays done and keeps its triggerAt.
C11_DoneIsTerminal ==
  [][ \A i \in DOMAIN todos :
        (todos[i].status = 1 /\ i \in DOMAIN todos') =>
          /\ todos'[i].status = 1
          /\ todos'[i].remind_at = todos[i].remind_at ]_vars

\* the history row of a recurring reminder that is still live is stored and
\* done after a later save, a later complete firing of the same task and the
\* deletion, through the manage mode keyboard, of a row saved after it
C11_Witness ==
  /\ sweep.pc = "idle"
  /\ ~kb.open
  /\ \E i, k \in DOMAIN todos :
       /\ i < k
       /\ todos[i].status = 1
       /\ todos[k].status = 1
       /\ \E j \in (i + 1)..(k - 1) : j \notin DOMAIN todos
       /\ \E r \in DOMAIN todos :
            /\ ~isOneShot(todos[r]) /\ r < i
            /\ todos[r].status = 0
            /\ todos[r].user_id = todos[i].user_id
            /\ todos[r].task = todos[i].task
            /\ todos[r].task = todos[k].task

\* C24: an untimed reminder (triggerAt -1) is left alone by every step of a
\* sweep: it is not selected, no message is sent for it, its row does not
\* change, and no history row without a time is inserted.
C24_UntimedNeverFired ==
  [][ /\ \A i \in DOMAIN todos :
           todos[i].remind_at = NO_TIME_LIMIT =>
             /\ i \in DOMAIN todos' /\ todos'[i] = todos[i]
             /\ \A k \in 1..Len(sent') : sent'[k].id # i
             /\ \A k \in 1..Len(sweep'.queue) : sweep'.queue[k].id # i
      /\ \A h \in DOMAIN todos' \ DOMAIN todos :
           todos'[h].status = 1 => todos'[h].remind_at # NO_TIME_LIMIT
    ]_vars

\* an untimed reminder is still active and untouched after a sweep that
\* started when it was stored fired a reminder saved after it, on a later day
C24_Witness ==
  /\ sweep.pc = "idle"
  /\ now > Now0 + SecPerDay
  /\ \E i, j, h \in DOMAIN todos :
       /\ i < j /\ j < h
       /\ todos[i].remind_at = NO_TIME_LIMIT /\ todos[i].status = 0
       /\ todos[h].status = 1 /\ todos[h].cron_rule = NULL
       /\ todos[h].task = todos[j].task
       /\ \E k \in 1..Len(sent) : sent[k].id = j

\* ------------------------------------- properties of one conversation
\* the steps of the three schedulers, seen from a pair of states
FireStep == chat.pc = "saved" /\ chat'.n = chat.n + 1
FireMainStep == chat.pc = "saved" /\ chat'.main.n = chat.main.n + 1
FirePart002Step == chat.pc = "saved" /\ chat'.part002.n = chat.part002.n + 1
\* the saved reminder: its rule and its triggerAt before and after a firing
SavedRule == todos[chat.id].cron_rule
Fired == todos[chat.id].remind_at
NextAt == todos'[chat.id].remind_at
\* <<year, month, day>> of the civil UTC+8 date of ts
CivilDate(ts) == CivilFromDays((ts + 8 * 3600) \div SecPerDay)
CivilTimeOfDay(ts) == (ts + 8 * 3600) % SecPerDay
DaysInMonth(y, m) ==
  IF m = 12 THEN 31 ELSE DaysFromCivil(y, m + 1, 1) - DaysFromCivil(y, m, 1)
\* ISO weekday of the UTC date of ts, the date the schedulers read
UtcIsoWeekday(ts) == ((ts \div SecPerDay + 3) % 7) + 1
WeekdaySetOK(rule) ==
  rule.kind = "weekly" /\ rule.days # {} /\ rule.days \subseteq 1..7

\* C12 as stated: for a weekly rule with a non-empty weekday set within
\* 1..7, the next triggerAt is the fired one plus k whole days for the
\* smallest k in 1..7 whose civil ISO weekday is in the set.
C12_WeeklyNextCivilWeekday ==
  [][ (FireStep /\ WeekdaySetOK(SavedRule)) =>
        \E k \in 1..7 :
          /\ NextAt = Fired + k * SecPerDay
          /\ CivilIsoWeekday(NextAt) \in SavedRule.days
          /\ \A m \in 1..(k - 1) :
               CivilIsoWeekday(Fired + m * SecPerDay) \notin SavedRule.days
    ]_vars

\* C13 as stated: for a monthly rule the civil date of the next triggerAt
\* lies in the calendar month after the civil month of the fired one, on the
\* last day of that month when it is shorter than the configured day.
C13_MonthlyNextMonthClamped ==
  [][ (FireStep /\ SavedRule.kind = "monthly" /\ SavedRule.day \in 1..31) =>
        LET a == CivilDate(Fired)
            b == CivilDate(NextAt)
            ny == IF a[2] = 12 THEN a[1] + 1 ELSE a[1]
            nm == IF a[2] = 12 THEN 1 ELSE a[2] + 1
        IN  /\ b[1] = ny
            /\ b[2] = nm
            /\ DaysInMonth(ny, nm) < SavedRule.day => b[3] = DaysInMonth(ny, nm)
    ]_vars

\* C14 as stated: a yearly reminder fired on civil Feb 29 is next due on
\* civil Feb 28 of the following year at the same time of day.
C14_YearlyFeb29ClampsToFeb28 ==
  [][ (FireStep /\ SavedRule.kind = "yearly"
         /\ CivilDate(Fired)[2] = 2 /\ CivilDate(Fired)[3] = 29) =>
        /\ CivilDate(NextAt) = <<CivilDate(Fired)[1] + 1, 2, 28>>
        /\ CivilTimeOfDay(NextAt) = CivilTimeOfDay(Fired) ]_vars

\* C15 as stated: the civil date of the next triggerAt has the day of month
\* of a monthly rule, and the month and day of a yearly rule, whenever that
\* date exists, whatever the civil date of the fired triggerAt.
C15_NextOnConfiguredDay ==
  [][ FireStep =>
        LET b == CivilDate(NextAt)
        IN  /\ (SavedRule.kind = "monthly" /\ SavedRule.day \in 1..31
                  /\ SavedRule.day <= DaysInMonth(b[1], b[2])) =>
                 b[3] = SavedRule.day
            /\ (SavedRule.kind = "yearly" /\ SavedRule.month \in 1..12
                  /\ SavedRule.day \in 1..DaysInMonth(b[1], SavedRule.month)) =>
                 (b[2] = SavedRule.month /\ b[3] = SavedRule.day)
    ]_vars

\* C16 as stated: in every scheduler and for every rule kind the next
\* triggerAt is a whole number of days after the fired one, so the civil
\* time of day never changes.
C16_SameTimeOfDay ==
  [][ /\ FireStep => (NextAt - Fired) % SecPerDay = 0
      /\ FirePart002Step =>
           (chat'.part002.at - chat.part002.at) % SecPerDay = 0
      /\ FireMainStep => (chat'.main.at - chat.main.at) % SecPerDay = 0
    ]_vars

\* C17 as stated: every scheduler reads the numbers of a weekly rule as ISO
\* weekdays, Monday = 1 .. Sunday = 7: the day it moves a reminder to is the
\* first later day whose ISO weekday is in the set.
C17_WeekdaysAreIso ==
  [][ /\ (FireStep /\ WeekdaySetOK(SavedRule)) =>
           /\ UtcIsoWeekday(NextAt) \in SavedRule.days
           /\ \A m \in 1..6 : Fired + m * SecPerDay < NextAt =>
                UtcIsoWeekday(Fired + m * SecPerDay) \notin SavedRule.days
      /\ (FirePart002Step /\ WeekdaySetOK(SavedRule)) =>
           UtcIsoWeekday(chat'.part002.at) \in SavedRule.days
      /\ (FireMainStep /\ WeekdaySetOK(SavedRule)) =>
           UtcIsoWeekday(chat'.main.at) \in SavedRule.days
    ]_vars

\* a recurrence descriptor the program's rule grammar allows
RuleOK(rule) ==
  \/ rule.kind \in {"null", "daily"}
  \/ WeekdaySetOK(rule)
  \/ rule.kind = "monthly" /\ rule.day \in 1..31
  \/ /\ rule.kind = "yearly"
     /\ rule.month \in 1..12
     /\ rule.day \in 1..DaysInMonth(2024, rule.month)

\* C18 as stated: no stored reminder has a malformed recurrence descriptor.
C18_NoMalformedRuleStored ==
  \A i \in DOMAIN todos : RuleOK(todos[i].cron_rule)

\* C19 as stated: a time expression that is of no recognized form and in
\* which the phrase parser finds nothing is answered with the error reply;
\* no confirmation is offered and nothing is stored.
C19_UnresolvedTimeIsAnError ==
  (chat.pc # "idle" /\ chat.json.via = "ai"
     /\ chat.json.time.form \in {"unknown", "T", "dash"}) =>
    (chat.pc = "error" /\ todos = << >>)

\* the instant of the civil UTC+8 date-time of a time expression
CivilInstant(time) ==
  DaysFromCivil(time.y, time.mo, time.d) * SecPerDay
    + time.h * 3600 + time.mi * 60 - 8 * 3600

MessageStep == chat.pc = "idle" /\ chat'.pc # "idle" /\ chat'.json.via = "ai"
Asked == chat'.json
Offered == chat'.offer
\* the instant of civil UTC+8 midnight of the civil date of ts
CivilMidnight(ts) == ((ts + 8 * 3600) \div SecPerDay) * SecPerDay - 8 * 3600

\* C21 as stated: a date-time string that carries the offset +08:00 is
\* offered with exactly the instant it denotes.
C21_OffsetIsoIsItsInstant ==
  [][ (MessageStep /\ Asked.time.form = "isoTz" /\ ~isRecurring(Asked.rule)) =>
        /\ Offered.kind = "confirm"
        /\ ~Offered.nan
        /\ Offered.remindAt = CivilInstant(Asked.time) ]_vars

\* C22 as stated: a bare clock time HH:MM resolves to HH:MM on the reference
\* civil date when that is strictly after the reference instant, and to
\* HH:MM one day later otherwise, equality included; the result is strictly
\* after the reference instant.
C22_ClockTimeRollsOneDay ==
  [][ (MessageStep /\ Asked.time.form = "clock" /\ ~isRecurring(Asked.rule)) =>
        LET sameDay == CivilMidnight(now) + Asked.time.h * 3600
                         + Asked.time.mi * 60
        IN  /\ Offered.kind = "confirm"
            /\ ~Offered.nan
            /\ Offered.remindAt =
                 IF sameDay > now THEN sameDay ELSE sameDay + SecPerDay
            /\ Offered.remindAt > now ]_vars

\* C23 as stated: a bare date MM-DD resolves to civil midnight of that month
\* and day in the reference civil year when that is strictly after the
\* reference instant, and to civil midnight of the same month and day one
\* year later otherwise.
C23_BareDateRollsOneYear ==
  [][ (MessageStep /\ Asked.time.form = "md") =>
        LET y == CivilDate(now)[1]
            thisYear == DaysFromCivil(y, Asked.time.mo, Asked.time.d)
                          * SecPerDay - 8 * 3600
        IN  /\ Offered.kind = "confirm"
            /\ ~Offered.nan
            /\ CivilTimeOfDay(Offered.remindAt) = 0
            /\ CivilDate(Offered.remindAt) =
                 <<IF thisYear > now THEN y ELSE y + 1,
                   Asked.time.mo, Asked.time.d>> ]_vars

\* C30 as stated: every recurring reminder offered for confirmation, with or
\* without an extracted time, has a triggerAt strictly after the reference
\* instant.  Checked for the rules of the grammar and the times that
\* resolve to a Date.
C30_RecurringOfferIsFuture ==
  [][ (MessageStep /\ isRecurring(Asked.rule) /\ RuleOK(Asked.rule)
         /\ Asked.time.form \notin {"T", "dash", "unknown"}) =>
        /\ Offered.kind = "confirm"
        /\ ~Offered.nan
        /\ Offered.remindAt > now ]_vars

\* ------------------------------------------- properties of the acceptance
\* the user accepts the confirmation the conversation was answered with
AcceptStep == chat.pc = "confirm" /\ chat'.pc \in {"saved", "dberror"}
\* a confirmation message of another conversation is accepted
SaveStep == saves' = saves + 1

\* C25: accepting a confirmation message that presents a triggerAt inserts
\* one row, active, owned by the accepting user, with the triggerAt, the
\* rule (none stored as null) and the allDay value the message presented,
\* and changes no other row, whatever was accepted before it or between its
\* presentation and its acceptance.
C25_AcceptStoresWhatWasPresented ==
  [][ /\ (AcceptStep /\ ~chat.offer.nan) =>
           /\ chat'.pc = "saved"
           /\ chat'.id \notin DOMAIN todos
           /\ DOMAIN todos' = DOMAIN todos \cup {chat'.id}
           /\ todos'[chat'.id] =
                Row("u1", "a", chat.offer.remindAt, chat.offer.cronRule,
                    chat.offer.allDay, 0)
           /\ \A i \in DOMAIN todos : todos'[i] = todos[i]
      /\ SaveStep =>
           /\ DOMAIN todos' = DOMAIN todos \cup {nextId}
           /\ \E c \in Confirmations :
                todos'[nextId] =
                  Row(c.user_id, c.task, c.remindAt, c.cronRule, c.allDay, 0)
           /\ \A i \in DOMAIN todos : todos'[i] = todos[i]
    ]_vars

\* the weekly all-day reminder offered for 'tomorrow' is stored as offered,
\* after a confirmation of the same user accepted earlier and before one
\* accepted later
C25_Witness ==
  /\ chat.pc = "saved"
  /\ chat.json = Json(Tomorrow, Weekly({1, 3, 5}), TRUE)
  /\ todos[chat.id].all_day = 1
  /\ todos[chat.id].cron_rule = Weekly({1, 3, 5})
  /\ todos[chat.id].remind_at = chat.offer.remindAt
  /\ \E i, k \in DOMAIN todos :
       /\ i < chat.id /\ chat.id < k
       /\ todos[i].user_id = "u1" /\ todos[k].user_id = "u1"

\* ---------------------------------------------- properties of the deletion
\* a step that deletes rows; kb'.by is the user who issued the request
DeleteStep == \E i \in DOMAIN todos : i \notin DOMAIN todos'

\* C26 as stated: a delete request issued by user u removes only rows whose
\* owner is u; every reminder owned by another user is unchanged after it.
C26_DeleteOnlyOwnRows ==
  [][ DeleteStep =>
        \A i \in DOMAIN todos :
          todos[i].user_id # kb'.by =>
            (i \in DOMAIN todos' /\ todos'[i] = todos[i]) ]_vars

\* ---------------------------------------------- properties of the list
ListStep == list' # list
\* the civil dates, as day numbers, of the instants start .. end
CivilDays(start, end) == DayOf(start + 8 * 3600) .. DayOf(end + 8 * 3600)
\* the civil date of day number day is one on which the rule fires
Matches(rule, day) ==
  \/ rule.kind = "daily"
  \/ rule.kind = "weekly" /\ ((day + 3) % 7) + 1 \in rule.days
  \/ rule.kind = "monthly" /\ CivilFromDays(day)[3] = rule.day
  \/ /\ rule.kind = "yearly"
     /\ CivilFromDays(day)[2] = rule.month
     /\ CivilFromDays(day)[3] = rule.day
Recurs(rule) == rule.kind \in {"daily", "weekly", "monthly", "yearly"}

\* C27 as stated: when renderList filters over a range, an active recurring
\* reminder of the user is on the list if and only if its rule fires on some
\* civil date of the range: daily always, weekly on the ISO weekdays of its
\* set, monthly on its day of the month, yearly on its month and day.
C27_ListedIffRuleFiresInRange ==
  [][ ListStep =>
        \A i \in getTodos(todos, list'.by, 0) :
          Recurs(todos[i].cron_rule) =>
            (i \in list'.ids <=>
               \E day \in CivilDays(list'.start, list'.end) :
                 Matches(todos[i].cron_rule, day)) ]_vars

\* --------------------------------------- properties of the all-day flag
\* the todos the step sent a message for
NotifiedNow == {sent'[k].id : k \in (Len(sent) + 1) .. Len(sent')}
\* two active todos that differ only in all_day
AllDayTwinRows(i, j) ==
  /\ i # j
  /\ todos[i].status = 0
  /\ todos[i].all_day # todos[j].all_day
  /\ [todos[i] EXCEPT !.all_day = 0] = [todos[j] EXCEPT !.all_day = 0]

\* C28 as stated: two reminders that differ only in allDay are notified,
\* marked done and rescheduled by the same sweeps, with the same resulting
\* triggerAt.
C28_AllDayHasNoEffect ==
  [][ \A i, j \in DOMAIN todos :
        AllDayTwinRows(i, j) =>
          /\ i \in NotifiedNow <=> j \in NotifiedNow
          /\ todos'[i].status = todos'[j].status
          /\ todos'[i].remind_at = todos'[j].remind_at ]_vars

\* ------------------------------------------ properties of a one-shot firing
\* a step of the sweep of processScheduledReminders at a one-shot todo
OneShotFiringStep ==
  sweep.pc # "idle" /\ isOneShot(Head(sweep.queue).row) /\ sweep' # sweep

\* C29 as stated: firing a one-shot reminder changes the store only by
\* setting the status of that reminder to done: no row is inserted and no
\* other row is modified.
C29_OneShotFiringOnlyMarksDone ==
  [][ OneShotFiringStep =>
        \/ todos' = todos
        \/ todos' = updateTodoStatus(todos, Head(sweep.queue).id, 1) ]_vars

\* ------------------------------------------------- properties of progress
\* row i is an active timed reminder whose triggerAt has passed
DueActive(i) ==
  /\ i \in DOMAIN todos
  /\ todos[i].status = 0
  /\ todos[i].remind_at > 0
  /\ todos[i].remind_at <= now
\* row i is not waiting for a firing: it was notified for the triggerAt it
\* has, or it is not due
Served(i) ==
  DueActive(i) =>
    \E k \in DOMAIN sent : sent[k] = [id |-> i, at |-> todos[i].remind_at]
\* the table of the model has no room for the history rows of a sweep
OutOfRows ==
  sweep.pc = "idle" /\ Free < Cardinality(remindersToProcess(todos, now))
\* the clock of the model stands at its last instant
LastInstant == \A t \in Instants : t <= now
\* a weekly rule one of whose days is a weekday, at the last instant: the
\* weekday comes after the instants of the model
WeekdayAfterLastInstant(i) ==
  /\ LastInstant
  /\ i \in DOMAIN todos
  /\ todos[i].cron_rule.kind = "weekly"
  /\ todos[i].cron_rule.days \cap (1..7) # {}

\* C31 as stated: when sweeps keep being invoked and every call succeeds,
\* every active timed reminder whose triggerAt has passed is eventually
\* fired, whatever its rule (or the table or the instants of the model are
\* exhausted first).
C31_DueEventuallyFired ==
  \A i \in 1..MaxRows :
    DueActive(i) ~> (Served(i) \/ OutOfRows \/ WeekdayAfterLastInstant(i))

\* ------------------------------------------------ properties of catching up
\* row i is a recurring reminder that has fired and whose triggerAt is not
\* after ts
Behind(i, ts) ==
  /\ ~isOneShot(todos[i])
  /\ todos[i].status = 0
  /\ Notified(i) > 0
  /\ todos[i].remind_at > 0
  /\ todos[i].remind_at <= ts
\* a sweep holds every todo once
OncePerSweep(sw) == Cardinality(QueueIds(sw)) = Len(sw.queue)
\* the firing of a recurring reminder moves it on by one period
OnePeriod ==
  (UpdateStep /\ ~isOneShot(Cur.row)) =>
    todos'[Cur.id].remind_at = calculateNext(Cur.row.remind_at,
                                             Cur.row.cron_rule)

\* C32 as stated: a recurring reminder is notified at most once per sweep
\* and moved on by one period per firing; while its triggerAt is not after
\* now it fires again in each following sweep.
C32_FiresAgainInEachSweep ==
  [][ /\ StartStep =>
           /\ OncePerSweep(sweep')
           /\ \A i \in DOMAIN todos : Behind(i, now) => i \in QueueIds(sweep')
      /\ OnePeriod ]_vars

\* C32 amended: a recurring reminder is notified at most once per sweep and
\* moved on by one period per firing; while its triggerAt is not after now
\* it fires again in each following sweep that, for a weekly rule, runs on
\* a civil weekday of its set.
C32_FiresAgainOnItsWeekday ==
  [][ /\ StartStep =>
           /\ OncePerSweep(sweep')
           /\ \A i \in DOMAIN todos :
                (Behind(i, now) /\ OnItsWeekday(todos[i], now)) =>
                  i \in QueueIds(sweep')
      /\ OnePeriod ]_vars

\* a sweep fires a recurring reminder it had fired one period earlier, and
\* the reminder will still not be after now when this firing has moved it
C32_Witness ==
  /\ sweep.pc = "notify"
  /\ ~isOneShot(Cur.row)
  /\ Cur.row.remind_at > 0
  /\ calculateNext(Cur.row.remind_at, Cur.row.cron_rule) > Cur.row.remind_at
  /\ calculateNext(Cur.row.remind_at, Cur.row.cron_rule) <= sweep.nowTs
  /\ \E k \in DOMAIN sent :
       /\ sent[k].id = Cur.id
       /\ sent[k].at < Cur.row.remind_at
       /\ calculateNext(sent[k].at, Cur.row.cron_rule) = Cur.row.remind_at

\* ------------------------------------- properties of overlapping invocations
\* number of messages sent for row i at triggerAt t
NotifiedAt(i, t) ==
  Cardinality({k \in DOMAIN sent : sent[k] = [id |-> i, at |-> t]})
\* invocation sw still holds row i as it selected it at triggerAt t
Holds(sw, i, t) ==
  \E k \in DOMAIN sw.queue :
    sw.queue[k].id = i /\ sw.queue[k].row.remind_at = t
\* two invocations selected the recurring reminder i at triggerAt t and both
\* are through with it, and it has not fired for a later triggerAt
BothCompleted(i, t) ==
  /\ ~isOneShot(todos[i])
  /\ todos[i].status = 0
  /\ NotifiedAt(i, t) >= 2
  /\ ~Holds(sweep, i, t)
  /\ ~Holds(overlap, i, t)
  /\ \A k \in DOMAIN sent : sent[k].id = i => sent[k].at <= t

\* C33: when two overlapping invocations select the same due recurring
\* reminder at triggerAt t, then once both are through with it its
\* triggerAt is calculateNext(t, rule): one period on, not two.
C33_OverlapAdvancesOnePeriod ==
  \A i \in DOMAIN todos :
    \A k \in DOMAIN sent :
      (sent[k].id = i /\ BothCompleted(i, sent[k].at)) =>
        todos[i].remind_at = calculateNext(sent[k].at, todos[i].cron_rule)

\* both invocations have fired a daily reminder for the same triggerAt and
\* are over
C33_Witness ==
  /\ sweep.pc = "idle"
  /\ overlap.pc = "idle"
  /\ \E i \in DOMAIN todos :
       \E k \in DOMAIN sent :
         /\ sent[k].id = i
         /\ BothCompleted(i, sent[k].at)
         /\ todos[i].cron_rule.kind = "daily"
         /\ todos[i].remind_at = sent[k].at + SecPerDay

\* --------------------------------------------- properties of the history
\* row h is a history row: done, and no message was ever sent for it
IsHistory(h) == todos[h].status = 1 /\ Notified(h) = 0
\* the history rows of owner and task of row i with triggerAt t
HistoryOf(i, t) ==
  {h \in DOMAIN todos : /\ IsHistory(h)
                        /\ todos[h].user_id = todos[i].user_id
                        /\ todos[h].task = todos[i].task
                        /\ todos[h].remind_at = t}
\* row i is the only reminder of its owner with its task
OnlyReminderOfTask(i) ==
  \A j \in DOMAIN todos \ {i} :
    (todos[j].user_id = todos[i].user_id /\ todos[j].task = todos[i].task)
      => IsHistory(j)

\* C34 as stated: for a recurring reminder and an instant t at which it
\* fired the store holds at most one history row of its owner and task with
\* triggerAt t.
C34_OneHistoryRowPerFiring ==
  \A i \in DOMAIN todos :
    (~isOneShot(todos[i]) /\ ~IsHistory(i) /\ OnlyReminderOfTask(i)) =>
      \A k \in DOMAIN sent :
        sent[k].id = i => Cardinality(HistoryOf(i, sent[k].at)) <= 1

\* ------------------------------------------------ properties of redelivery
\* C35 as stated: a confirmation message results in at most one stored
\* reminder: once its accept callback has stored a row, a further delivery
\* of the same callback inserts none.
C35_OneRowPerConfirmation ==
  [][ chat.pc = "saved" => DOMAIN todos' = DOMAIN todos ]_vars

\* ------------------------------------------- properties of the parsing state
\* C36 as stated: pressing confirm on a confirmation message saves the task
\* and time that message shows, also when the user has sent another
\* message since; a state is used by at most one save.
C36_ConfirmSavesWhatMessageShows ==
  [][ SaveStep =>
        /\ todos'[nextId].user_id = parsing'.pressed.by
        /\ todos'[nextId].task = parsing'.pressed.task
        /\ todos'[nextId].remind_at = parsing'.pressed.utcTime
        /\ parsing'.state[parsing'.pressed.by] = NoState ]_vars

\* ------------------------------------------ properties of the daily reminders
\* the window of instant ts: its civil day and 1 for 08:55 to 09:05, 2 for
\* 19:55 to 20:05, 0 outside the windows
WindowOf(ts) ==
  IF (ts + 8 * 3600) % SecPerDay \in (8 * 3600 + 55 * 60) .. (9 * 3600 + 359)
  THEN <<(ts + 8 * 3600) \div SecPerDay, 1>>
  ELSE IF (ts + 8 * 3600) % SecPerDay \in
            (19 * 3600 + 55 * 60) .. (20 * 3600 + 359)
  THEN <<(ts + 8 * 3600) \div SecPerDay, 2>>
  ELSE <<0, 0>>
\* an invocation of scheduled at a new instant
ScheduledStep == sweep'.nowTs # sweep.nowTs
\* the messages of daily todo i sent in the window of ts
InWindow(msgs, i, ts) ==
  {k \in DOMAIN msgs : msgs[k].id = i /\ WindowOf(msgs[k].at) = WindowOf(ts)}

\* C37 as stated: an active daily task is notified in the morning window
\* and in the evening window of every civil day in which sweeps run, and
\* never more than once within one window.
C37_DailyTwiceADay ==
  [][ (ScheduledStep /\ WindowOf(now)[2] # 0) =>
        \A i \in dailyReminders(todos) :
          Cardinality(InWindow(sent', i, now)) = 1 ]_vars

\* ------------------------------------------- properties of the weekday filter
\* the instant of the sweep a step belongs to
SweepInstant == IF sweep.pc = "idle" THEN now ELSE sweep.nowTs
\* row i is an active weekly reminder and ts is not on a civil weekday of
\* its set
OffItsWeekday(i, ts) ==
  /\ todos[i].cron_rule.kind = "weekly"
  /\ todos[i].status = 0
  /\ CivilIsoWeekday(ts) \notin todos[i].cron_rule.days

\* C38: a sweep sends a message for a weekly reminder only when the civil
\* ISO weekday of the sweep instant is in its weekday set; a weekly reminder
\* whose set does not contain that weekday is not selected and its row is
\* left as it is by every step of that sweep.
C38_WeeklyOnlyOnItsWeekday ==
  [][ /\ Len(sent') > Len(sent) =>
           ~OffItsWeekday(sent'[Len(sent')].id, SweepInstant)
      /\ sweep' # sweep =>
           \A i \in DOMAIN todos :
             OffItsWeekday(i, SweepInstant) =>
               /\ todos'[i] = todos[i]
               /\ i \notin QueueIds(sweep') ]_vars

\* a weekly reminder fired on a weekday of its set is due again, and a
\* sweep on a weekday outside its set is at its last step without it
C38_Witness ==
  /\ sweep.pc = "update"
  /\ \E i \in DOMAIN todos :
       /\ OffItsWeekday(i, sweep.nowTs)
       /\ todos[i].remind_at > 0
       /\ todos[i].remind_at <= sweep.nowTs
       /\ i \notin QueueIds(sweep)
       /\ \E k \in DOMAIN sent :
            /\ sent[k].id = i
            /\ CivilIsoWeekday(sent[k].at) \in todos[i].cron_rule.days
            /\ todos[i].remind_at > sent[k].at

\* ------------------------------------------------ properties of the callbacks
\* the ids a step removes from the table and those it adds
Deleted == DOMAIN todos \ DOMAIN todos'
Inserted == DOMAIN todos' \ DOMAIN todos
\* a callback drew the keyboard message again
KeyboardStep == kb' # kb
\* 'conf_del|' pressed with a selection: the text replaces the keyboard
ConfDelStep == kb.open /\ kb.sel # {} /\ ~kb'.open /\ todos' # todos

\* C39: of the callbacks only 'sv|' inserts (the other inserts are the
\* history rows of the sweep) and only 'conf_del|' with a selection
\* deletes, and then only selected rows of the user who pressed; 'cancel',
\* 'manage_mode' and 'tog|' leave the table as it is; 'tog|' moves one id
\* into or out of the selection, so that a second press of the same id
\* restores it; 'conf_del|' without a selection deletes nothing.
C39_CallbackFrame ==
  [][ /\ Inserted # {} => (SaveStep \/ InsertStep) /\ ~KeyboardStep
      /\ Deleted # {} =>
           /\ ConfDelStep
           /\ Deleted = {i \in kb.sel \cap DOMAIN todos :
                           todos[i].user_id = kb'.by}
      /\ KeyboardStep =>
           /\ \A i \in DOMAIN todos' : todos'[i] = todos[i]
           /\ ConfDelStep \/ todos' = todos
           /\ kb'.open =>
                \/ kb'.sel = {} /\ kb'.rows = getTodos(todos, kb'.by, 0)
                \/ \E tid \in kb.rows :
                     kb'.sel = (kb.sel \ {tid}) \cup ({tid} \ kb.sel)
    ]_vars

\* a deletion was confirmed: of the two todos saved the first is gone and
\* the second, a todo of u1 that was not in the selection, is still there
C39_Witness ==
  /\ ~kb.open
  /\ kb.by = "u1"
  /\ nextId = 3
  /\ DOMAIN todos = {2}
  /\ todos[2].user_id = "u1"

====
